---- MODULE Spec2Model ----
(***************************************************************************)
(* Order construction and signing core of the CLOB client                  *)
(* (order_builder.go, signing.go, headers.go, client.go) and of its HTTP   *)
(* client with retries.                                                    *)
(*                                                                         *)
(* float64 values are modelled as exact decimals [m, e] standing for       *)
(* m / 10^e (e >= 0), kept in canonical form (no trailing zero digit).     *)
(* Binary rounding noise of float64 is not part of the model: every        *)
(* operation is computed exactly on the decimal inputs that are drawn.     *)
(* The non-finite values NaN, +Inf and -Inf have e = -1.                   *)
(* Decimal strings are sequences of one-character strings.                 *)
(***************************************************************************)
EXTENDS Integers, Sequences, FiniteSets, TLC

VARIABLES builder, last, client, http, calls

vars == <<builder, last, client, http, calls>>

NoErr == "nil"

----------------------------------------------------------------------------
(* Decimal arithmetic standing for float64 arithmetic                      *)

RECURSIVE Pow10(_)
Pow10(n) == IF n <= 0 THEN 1 ELSE 10 * Pow10(n - 1)

Abs(n) == IF n < 0 THEN -n ELSE n

Sign(n) == IF n < 0 THEN -1 ELSE IF n > 0 THEN 1 ELSE 0

D(m, e) == [m |-> m, e |-> e]

\* math.NaN(), math.Inf(1)
NaN == [m |-> 0, e |-> -1]
PosInf == [m |-> 1, e |-> -1]

IsFinite(a) == a.e >= 0
IsNaN(a) == a = NaN

\* where a value stands among the infinities: -1, 0 (finite) or 1
Rank(a) == IF IsFinite(a) THEN 0 ELSE a.m

\* an infinity of the given sign; NaN for sign 0
Infinity(sign) == [m |-> sign, e |-> -1]

IsPow10(n) == \E k \in 0..9 : n = Pow10(k)

Log10(n) == CHOOSE k \in 0..9 : n = Pow10(k)

RECURSIVE Norm(_)
Norm(a) ==
    IF a.e > 0 /\ a.m % 10 = 0
    THEN Norm([m |-> a.m \div 10, e |-> a.e - 1])
    ELSE a

MaxE(a, b) == IF a.e >= b.e THEN a.e ELSE b.e

Scale(a, e) == a.m * Pow10(e - a.e)

\* a <= b; false when either is NaN
DecLE(a, b) ==
    IF IsNaN(a) \/ IsNaN(b) THEN FALSE
    ELSE IF ~IsFinite(a) \/ ~IsFinite(b) THEN Rank(a) < Rank(b) \/ a = b
    ELSE Scale(a, MaxE(a, b)) <= Scale(b, MaxE(a, b))

\* a < b; false when either is NaN
DecLT(a, b) ==
    IF IsNaN(a) \/ IsNaN(b) THEN FALSE
    ELSE IF ~IsFinite(a) \/ ~IsFinite(b) THEN Rank(a) < Rank(b)
    ELSE Scale(a, MaxE(a, b)) < Scale(b, MaxE(a, b))

\* a * 10^k, without forming an intermediate product
ShiftLeft(a, k) ==
    IF a.e >= k THEN Norm([m |-> a.m, e |-> a.e - k])
    ELSE [m |-> a.m * Pow10(k - a.e), e |-> 0]

\* a * b; NaN times anything and infinity times zero are NaN
DecMul(a, b) ==
    IF ~IsFinite(a) \/ ~IsFinite(b) THEN Infinity(Sign(a.m) * Sign(b.m))
    ELSE IF b.e = 0 /\ b.m > 0 /\ IsPow10(b.m) THEN ShiftLeft(a, Log10(b.m))
    ELSE Norm([m |-> a.m * b.m, e |-> a.e + b.e])

\* a - b; NaN when either is NaN or both are the same infinity
DecSub(a, b) ==
    IF IsNaN(a) \/ IsNaN(b) THEN NaN
    ELSE IF ~IsFinite(a) \/ ~IsFinite(b)
         THEN Infinity(Sign(Rank(a) - Rank(b)))
    ELSE Norm([m |-> Scale(a, MaxE(a, b)) - Scale(b, MaxE(a, b)), e |-> MaxE(a, b)])


\* digits kept by a division whose quotient is not a finite decimal
DivDigits == 5

\* x / y; y # 0.  Exact when y is a power of ten, otherwise the quotient
\* rounded to DivDigits decimal digits.
DecDiv(x, y) ==
    IF IsNaN(x) \/ IsNaN(y) \/ (~IsFinite(x) /\ ~IsFinite(y)) THEN NaN
    ELSE IF ~IsFinite(x) THEN Infinity(IF y.m < 0 THEN -Sign(x.m) ELSE Sign(x.m))
    ELSE IF ~IsFinite(y) THEN D(0, 0)
    ELSE IF y.m > 0 /\ IsPow10(y.m)
    THEN LET sh == x.e + Log10(y.m) - y.e
         IN  IF sh >= 0 THEN Norm([m |-> x.m, e |-> sh])
                        ELSE [m |-> x.m * Pow10(-sh), e |-> 0]
    ELSE LET num == Abs(x.m) * Pow10(y.e + DivDigits)
             den == Abs(y.m) * Pow10(x.e)
             q   == IF 2 * (num % den) >= den THEN (num \div den) + 1 ELSE num \div den
         IN  Norm([m |-> Sign(x.m) * Sign(y.m) * q, e |-> DivDigits])

\* math.Mod(x, y): remainder of x / y with the sign of x, magnitude < |y|
\* Mod(NaN, y), Mod(x, NaN) and Mod(+-Inf, y) are NaN, Mod(x, +-Inf) is x
MathMod(x, y) ==
    IF IsNaN(y) \/ ~IsFinite(x) THEN NaN
    ELSE IF ~IsFinite(y) THEN x
    ELSE
    LET e == MaxE(x, y)
        r == Abs(Scale(x, e)) % Abs(Scale(y, e))
    IN  Norm([m |-> Sign(x.m) * r, e |-> e])

\* nearest integer, halves to the even neighbour
MathRoundHalfEven(x) ==
    LET P == Pow10(x.e)
        a == Abs(x.m)
        q == a \div P
        r == a % P
        n == IF 2 * r > P \/ (2 * r = P /\ q % 2 = 1) THEN q + 1 ELSE q
    IN  D(Sign(x.m) * n, 0)

MathRoundHalfDown(x) ==
    IF ~IsFinite(x) THEN x ELSE
    LET P == Pow10(x.e)
        n == (2 * Abs(x.m) + P - 1) \div (2 * P)
    IN  D(Sign(x.m) * n, 0)

\* math.Round(x): nearest integer, halves away from zero; Round(NaN) = NaN,
\* Round(+-Inf) = +-Inf
MathRound(x) ==
    IF ~IsFinite(x) THEN x ELSE
    LET P == Pow10(x.e)
        n == (2 * Abs(x.m) + P) \div (2 * P)
    IN  D(Sign(x.m) * n, 0)

\* math.Pow(10, float64(decimals))
MathPow10(decimals) == D(Pow10(decimals), 0)

----------------------------------------------------------------------------
(* Decimal strings                                                         *)

DigitChar == <<"0", "1", "2", "3", "4", "5", "6", "7", "8", "9">>

DigitVal(c) == CHOOSE d \in 0..9 : DigitChar[d + 1] = c

IsDigit(c) == \E d \in 0..9 : DigitChar[d + 1] = c

RECURSIVE Digits(_)
Digits(n) ==
    IF n < 10 THEN <<DigitChar[n + 1]>>
    ELSE Append(Digits(n \div 10), DigitChar[(n % 10) + 1])

\* strconv.FormatInt(n, 10), strconv.Itoa(n), fmt.Sprintf("%d", n)
FormatInt(n) == IF n < 0 THEN <<"-">> \o Digits(-n) ELSE Digits(n)

\* fmt.Sprintf("%.0f", x): x rounded to an integer (halves to even), printed
\* without a decimal point; NaN, +Inf and -Inf for the non-finite values
Sprintf0f(x) ==
    IF IsNaN(x) THEN <<"N", "a", "N">>
    ELSE IF ~IsFinite(x) THEN <<(IF x.m > 0 THEN "+" ELSE "-"), "I", "n", "f">>
    ELSE FormatInt(MathRoundHalfEven(x).m)

RECURSIVE DigitsVal(_)
DigitsVal(s) ==
    IF Len(s) = 0 THEN 0
    ELSE 10 * DigitsVal(SubSeq(s, 1, Len(s) - 1)) + DigitVal(s[Len(s)])

\* (*big.Int).SetString(s, 10): an optional sign followed by at least one
\* digit; the receiver is left at zero when the text does not parse
SetString(s) ==
    LET signed == Len(s) > 0 /\ s[1] \in {"-", "+"}
        body   == IF signed THEN SubSeq(s, 2, Len(s)) ELSE s
        ok     == Len(body) > 0 /\ \A i \in 1..Len(body) : IsDigit(body[i])
    IN  IF ~ok THEN [ok |-> FALSE, val |-> 0]
        ELSE [ok |-> TRUE,
              val |-> IF signed /\ s[1] = "-" THEN -DigitsVal(body) ELSE DigitsVal(body)]

\* (*big.Int).String()
BigIntString(z) == FormatInt(z)

EmptyString == <<>>

----------------------------------------------------------------------------
(* Types                                                                   *)

SideBuy == "BUY"
SideSell == "SELL"
Sides == {SideBuy, SideSell}

TickSize01 == "0.1"
TickSize001 == "0.01"
TickSize0001 == "0.001"
TickSize00001 == "0.0001"
KnownTickSizes == {TickSize01, TickSize001, TickSize0001, TickSize00001}

RoundConfig(p, s, a) == [Price |-> p, Size |-> s, Amount |-> a]

----------------------------------------------------------------------------
(* order_builder.go                                                        *)

getRoundConfigFine(tickSize) ==
    CASE tickSize = TickSize01    -> RoundConfig(1, 1, 3)
      [] tickSize = TickSize001   -> RoundConfig(2, 2, 4)
      [] tickSize = TickSize0001  -> RoundConfig(3, 3, 5)
      [] tickSize = TickSize00001 -> RoundConfig(4, 4, 6)
      [] OTHER                    -> RoundConfig(2, 2, 4)

getRoundConfigCoarse(tickSize) ==
    CASE tickSize = TickSize01    -> RoundConfig(1, 1, 1)
      [] tickSize = TickSize001   -> RoundConfig(2, 2, 2)
      [] tickSize = TickSize0001  -> RoundConfig(3, 3, 3)
      [] tickSize = TickSize00001 -> RoundConfig(4, 4, 4)
      [] OTHER                    -> RoundConfig(1, 1, 1)

getRoundConfig(tickSize) ==
    CASE tickSize = TickSize01    -> RoundConfig(1, 1, 1)
      [] tickSize = TickSize001   -> RoundConfig(2, 2, 2)
      [] tickSize = TickSize0001  -> RoundConfig(3, 3, 3)
      [] tickSize = TickSize00001 -> RoundConfig(4, 4, 4)
      [] OTHER                    -> RoundConfig(2, 2, 2)

roundAmountScaled(amount, decimals) ==
    LET multiplier == MathPow10(decimals)
    IN  DecDiv(MathRound(DecMul(amount, multiplier)), MathPow10(decimals + 1))

roundAmount(amount, decimals) ==
    LET multiplier == MathPow10(decimals)
    IN  DecDiv(MathRound(DecMul(amount, multiplier)), multiplier)

ErrPriceRange == "price must be between 0 and 1"
ErrTickParse == "invalid tick size"
ErrTickMultiple == "price must be a multiple of tick size"

Zero == D(0, 0)
One == D(1, 0)
Million == D(1000000, 0)

calculateOrderAmountsSwapped(price, size, side, roundConfig) ==
    IF DecLE(price, Zero) \/ DecLT(One, price)
    THEN [makerAmount |-> EmptyString, takerAmount |-> EmptyString, err |-> ErrPriceRange]
    ELSE LET rawMakerAmount == roundAmount(size, roundConfig.Size)
             rawTakerAmount == roundAmount(DecMul(price, size), roundConfig.Amount)
             makerAmountWei == SetString(Sprintf0f(DecMul(rawMakerAmount, Million))).val
             takerAmountWei == SetString(Sprintf0f(DecMul(rawTakerAmount, Million))).val
         IN  [makerAmount |-> BigIntString(makerAmountWei),
              takerAmount |-> BigIntString(takerAmountWei),
              err |-> NoErr]

calculateOrderAmountsLax(price, size, side, roundConfig) ==
    IF DecLT(price, Zero) \/ DecLT(One, price)
    THEN [makerAmount |-> EmptyString, takerAmount |-> EmptyString, err |-> ErrPriceRange]
    ELSE LET rawMakerAmount ==
                 IF side = SideBuy
                 THEN roundAmount(DecMul(price, size), roundConfig.Amount)
                 ELSE roundAmount(size, roundConfig.Size)
             rawTakerAmount ==
                 IF side = SideBuy
                 THEN roundAmount(size, roundConfig.Size)
                 ELSE roundAmount(DecMul(price, size), roundConfig.Amount)
             makerAmountWei == SetString(Sprintf0f(DecMul(rawMakerAmount, Million))).val
             takerAmountWei == SetString(Sprintf0f(DecMul(rawTakerAmount, Million))).val
         IN  [makerAmount |-> BigIntString(makerAmountWei),
              takerAmount |-> BigIntString(takerAmountWei),
              err |-> NoErr]

calculateOrderAmounts(price, size, side, roundConfig) ==
    IF DecLE(price, Zero) \/ DecLT(One, price)
    THEN [makerAmount |-> EmptyString, takerAmount |-> EmptyString, err |-> ErrPriceRange]
    ELSE LET rawMakerAmount ==
                 IF side = SideBuy
                 THEN roundAmount(DecMul(price, size), roundConfig.Amount)
                 ELSE roundAmount(size, roundConfig.Size)
             rawTakerAmount ==
                 IF side = SideBuy
                 THEN roundAmount(size, roundConfig.Size)
                 ELSE roundAmount(DecMul(price, size), roundConfig.Amount)
             makerAmountWei == SetString(Sprintf0f(DecMul(rawMakerAmount, Million))).val
             takerAmountWei == SetString(Sprintf0f(DecMul(rawTakerAmount, Million))).val
         IN  [makerAmount |-> BigIntString(makerAmountWei),
              takerAmount |-> BigIntString(takerAmountWei),
              err |-> NoErr]

\* strconv.ParseFloat(string(tickSize), 64) on the tick-size texts drawn
ParseFloat(s) ==
    CASE s = "0.1"    -> [ok |-> TRUE, val |-> D(1, 1)]
      [] s = "0.01"   -> [ok |-> TRUE, val |-> D(1, 2)]
      [] s = "0.001"  -> [ok |-> TRUE, val |-> D(1, 3)]
      [] s = "0.0001" -> [ok |-> TRUE, val |-> D(1, 4)]
      [] s = "0.05"   -> [ok |-> TRUE, val |-> D(5, 2)]
      [] OTHER        -> [ok |-> FALSE, val |-> Zero]

ValidatePriceWide(price, tickSize) ==
    IF DecLE(price, Zero) \/ DecLT(One, price) THEN ErrPriceRange
    ELSE LET parsed == ParseFloat(tickSize) IN
         IF ~parsed.ok THEN ErrTickParse
         ELSE LET tickSizeFloat == parsed.val
                  remainder == MathMod(price, tickSizeFloat)
                  epsilon   == DecDiv(tickSizeFloat, D(10, 0))
              IN  IF DecLT(epsilon, remainder)
                     /\ DecLT(epsilon, DecSub(tickSizeFloat, remainder))
                  THEN ErrTickMultiple
                  ELSE NoErr

ValidatePrice(price, tickSize) ==
    IF DecLE(price, Zero) \/ DecLT(One, price) THEN ErrPriceRange
    ELSE LET parsed == ParseFloat(tickSize) IN
         IF ~parsed.ok THEN ErrTickParse
         ELSE LET tickSizeFloat == parsed.val
                  remainder == MathMod(price, tickSizeFloat)
                  epsilon   == DecDiv(tickSizeFloat, D(100, 0))
              IN  IF DecLT(epsilon, remainder)
                     /\ DecLT(epsilon, DecSub(tickSizeFloat, remainder))
                  THEN ErrTickMultiple
                  ELSE NoErr

----------------------------------------------------------------------------
(* Pointers: a nil pointer, or a pointer to a value                        *)

NilPtr == [nil |-> TRUE]

Ptr(v) == [val |-> v]

----------------------------------------------------------------------------
(* signing.go                                                              *)

KeyA == "0xaaaa"
KeyB == "0xbbbb"
KeyMalformed == "not-hex"
PrivateKeys == {KeyA, KeyB, KeyMalformed}

ErrInvalidKey == "invalid private key"
ErrHashMessage == "failed to hash message"

\* hexutil.Decode + crypto.ToECDSA + crypto.PubkeyToAddress(...).Hex()
GetAddressFromPrivateKey(privateKey) ==
    CASE privateKey = KeyA -> [address |-> "0xAddrA", err |-> NoErr]
      [] privateKey = KeyB -> [address |-> "0xAddrB", err |-> NoErr]
      [] OTHER             -> [address |-> "", err |-> ErrInvalidKey]

ChainPolygon == 137
ChainAmoy == 80002

getExchangeAddressStrict(chainID) ==
    CASE chainID = 137   -> "0x4bFb41d5B3570DeFd03C39a9A4D8dE6Bd8B8982E"
      [] chainID = 80002 -> "0xdFE02Eb6733538f8Ea35D585af8DE5958AD99E40"
      [] OTHER           -> ""

getExchangeAddress(chainID) ==
    CASE chainID = 137   -> "0x4bFb41d5B3570DeFd03C39a9A4D8dE6Bd8B8982E"
      [] chainID = 80002 -> "0xdFE02Eb6733538f8Ea35D585af8DE5958AD99E40"
      [] OTHER           -> "0x4bFb41d5B3570DeFd03C39a9A4D8dE6Bd8B8982E"

\* a uint256 member of the typed data must be the text of a non-negative
\* integer, otherwise typedData.HashStruct reports an error
IsUint(s) == Len(s) > 0 /\ \A i \in 1..Len(s) : IsDigit(s[i])

\* signature[64] is the last byte of a signature: R || S || V
RecoveryIndex == 64
SignatureLength == RecoveryIndex + 1

cryptoSignOther(hash, privateKey, recid) ==
    [signedBy |-> "0xOther",
     hash     |-> hash,
     size     |-> SignatureLength,
     v        |-> recid]

\* crypto.Sign(hash, key): the signature of hash, whose signer (and nothing
\* else about the key) can be recovered from it; recid is the recovery id
\* the primitive puts in signature[64]
cryptoSign(hash, privateKey, recid) ==
    [signedBy |-> GetAddressFromPrivateKey(privateKey).address,
     hash     |-> hash,
     size     |-> SignatureLength,
     v        |-> recid]

adjustVNever(signature) == signature

\* if signature[64] < 27 { signature[64] += 27 }, on a byte
adjustV(signature) ==
    IF signature.v < 27 THEN [signature EXCEPT !.v = (signature.v + 27) % 256]
    ELSE signature

BuildOrderSignatureEOA(chainID, privateKey, order, signatureType, recid) ==
    LET message == [salt          |-> FormatInt(order.Salt),
                    maker         |-> order.Maker,
                    signer        |-> order.Signer,
                    taker         |-> order.Taker,
                    tokenId       |-> order.TokenID,
                    makerAmount   |-> order.MakerAmount,
                    takerAmount   |-> order.TakerAmount,
                    expiration    |-> order.Expiration,
                    nonce         |-> order.Nonce,
                    feeRateBps    |-> order.FeeRateBps,
                    side          |-> FormatInt(IF order.Side = SideBuy THEN 0 ELSE 1),
                    signatureType |-> FormatInt(0)]
        domain  == [name              |-> "Polymarket CTF Exchange",
                    version           |-> "1",
                    chainId           |-> chainID,
                    verifyingContract |-> getExchangeAddress(chainID)]
        key     == GetAddressFromPrivateKey(privateKey)
    IN  IF key.err # NoErr THEN [signature |-> NilPtr, err |-> ErrInvalidKey]
        ELSE IF ~(/\ IsUint(message.salt)
                  /\ IsUint(message.makerAmount)
                  /\ IsUint(message.takerAmount)
                  /\ IsUint(message.expiration)
                  /\ IsUint(message.nonce)
                  /\ IsUint(message.feeRateBps))
        THEN [signature |-> NilPtr, err |-> ErrHashMessage]
        ELSE [signature |-> adjustV(cryptoSign([domain |-> domain, message |-> message],
                                               privateKey, recid)),
              err |-> NoErr]

BuildOrderSignature(chainID, privateKey, order, signatureType, recid) ==
    LET message == [salt          |-> FormatInt(order.Salt),
                    maker         |-> order.Maker,
                    signer        |-> order.Signer,
                    taker         |-> order.Taker,
                    tokenId       |-> order.TokenID,
                    makerAmount   |-> order.MakerAmount,
                    takerAmount   |-> order.TakerAmount,
                    expiration    |-> order.Expiration,
                    nonce         |-> order.Nonce,
                    feeRateBps    |-> order.FeeRateBps,
                    side          |-> FormatInt(IF order.Side = SideBuy THEN 0 ELSE 1),
                    signatureType |-> FormatInt(signatureType)]
        domain  == [name              |-> "Polymarket CTF Exchange",
                    version           |-> "1",
                    chainId           |-> chainID,
                    verifyingContract |-> getExchangeAddress(chainID)]
        key     == GetAddressFromPrivateKey(privateKey)
    IN  IF key.err # NoErr THEN [signature |-> NilPtr, err |-> ErrInvalidKey]
        ELSE IF ~(/\ IsUint(message.salt)
                  /\ IsUint(message.makerAmount)
                  /\ IsUint(message.takerAmount)
                  /\ IsUint(message.expiration)
                  /\ IsUint(message.nonce)
                  /\ IsUint(message.feeRateBps))
        THEN [signature |-> NilPtr, err |-> ErrHashMessage]
        ELSE [signature |-> adjustV(cryptoSign([domain |-> domain, message |-> message],
                                               privateKey, recid)),
              err |-> NoErr]

ClobAuthDomain == "ClobAuthDomain"
ClobAuthMessage == "Signing in to ClobAuth"

\* chainID is a chain id big.NewInt turns into a uint256, nonce a string
\* member: neither hash can fail on them
BuildClobEip712Signature(chainID, privateKey, timestamp, nonce, recid) ==
    LET domain  == [name    |-> ClobAuthDomain,
                    version |-> "1",
                    chainId |-> chainID]
        key     == GetAddressFromPrivateKey(privateKey)
        message == [address   |-> key.address,
                    timestamp |-> FormatInt(timestamp),
                    nonce     |-> nonce,
                    message   |-> ClobAuthMessage]
    IN  IF key.err # NoErr THEN [signature |-> NilPtr, err |-> ErrInvalidKey]
        ELSE [signature |-> adjustV(cryptoSign([domain |-> domain, message |-> message],
                                               privateKey, recid)),
              err |-> NoErr]

\* sha256.Size: the length of an HMAC-SHA256 digest
Sha256Size == 32

\* hmac.New(sha256.New, []byte(secret)); h.Write([]byte(message)); h.Sum(nil):
\* a digest determined by the key and the bytes written, and by nothing else
hmacSha256(secret, message) ==
    [secret |-> secret, message |-> message, size |-> Sha256Size]

\* base64.URLEncoding.EncodeToString: the text of the bytes in the URL-safe
\* alphabet (which has no '='), followed by pad '=' characters that fill
\* the last group of four
base64URLEncode(bytes) ==
    [data |-> bytes, pad |-> (3 - (bytes.size % 3)) % 3]

TrimRightNothing(encoded) == encoded

\* strings.TrimRight(signature, "=")
TrimRightPad(encoded) == [encoded EXCEPT !.pad = 0]

hmacMessageSlashed(timestamp, method, requestPath, body) ==
    FormatInt(timestamp) \o <<"/">> \o method \o requestPath \o body

\* fmt.Sprintf("%d%s%s%s", timestamp, method, requestPath, body)
hmacMessage(timestamp, method, requestPath, body) ==
    FormatInt(timestamp) \o method \o requestPath \o body

BuildPolyHmacSignature(secret, timestamp, method, requestPath, body) ==
    LET message   == hmacMessage(timestamp, method, requestPath, body)
        signature == base64URLEncode(hmacSha256(secret, message))
    IN  [signature |-> TrimRightPad(signature), err |-> NoErr]

----------------------------------------------------------------------------
(* order_builder.go: OrderBuilder                                          *)

SignatureTypeEOA == 0
SignatureTypePOLYPROXY == 1

NewOrderBuilder(privateKey, chainID, signatureType, funderAddress) ==
    [PrivateKey    |-> privateKey,
     ChainID       |-> chainID,
     SignatureType |-> signatureType,
     FunderAddress |-> funderAddress]

\* stands for 2^63 - 1, the exclusive upper limit handed to rand.Int
MaxSalt == 3

ErrEntropy == "entropy source unavailable"

\* rand.Int(rand.Reader, max): an error, or a value drawn from [0, max)
RandInt(max) ==
    {[n |-> k, err |-> NoErr] : k \in 0..(max - 1)} \cup {[n |-> 0, err |-> ErrEntropy]}

\* rnd is the outcome of rand.Int
generateSalt(rnd) ==
    IF rnd.err # NoErr THEN [salt |-> 0, err |-> rnd.err]
    ELSE [salt |-> rnd.n, err |-> NoErr]

ZeroAddress == "0x0000000000000000000000000000000000000000"

makerAddressSigner(b, address) == address

makerAddress(b, address) ==
    IF b.FunderAddress # NilPtr THEN b.FunderAddress.val ELSE address

orderTaker(userOrder) ==
    IF userOrder.Taker # NilPtr THEN userOrder.Taker.val ELSE ZeroAddress

orderNonceOne(userOrder) ==
    IF userOrder.Nonce # NilPtr THEN FormatInt(userOrder.Nonce.val) ELSE <<"1">>

orderNonce(userOrder) ==
    IF userOrder.Nonce # NilPtr THEN FormatInt(userOrder.Nonce.val) ELSE <<"0">>

orderExpiration(userOrder) ==
    IF userOrder.Expiration # NilPtr THEN FormatInt(userOrder.Expiration.val) ELSE <<"0">>

orderFeeRateBps(userOrder) ==
    IF userOrder.FeeRateBps # NilPtr THEN FormatInt(userOrder.FeeRateBps.val) ELSE <<"0">>

NilOrder == [nil |-> TRUE]

ErrGetAddress == "failed to get address"
ErrCalcAmounts == "failed to calculate amounts"
ErrGenSalt == "failed to generate salt"
ErrSignOrder == "failed to sign order"

BuildOrderPartial(b, userOrder, options, rnd, recid) ==
    LET addr == GetAddressFromPrivateKey(b.PrivateKey) IN
    IF addr.err # NoErr
    THEN [order |-> NilOrder, err |-> ErrGetAddress, cause |-> addr.err,
          steps |-> <<"address">>]
    ELSE
    LET address     == addr.address
        maker       == makerAddress(b, address)
        roundConfig == getRoundConfig(options.TickSize)
        amounts     == calculateOrderAmounts(userOrder.Price, userOrder.Size,
                                             userOrder.Side, roundConfig)
    IN
    IF amounts.err # NoErr
    THEN [order |-> NilOrder, err |-> ErrCalcAmounts, cause |-> amounts.err,
          steps |-> <<"address", "amounts">>]
    ELSE
    LET s == generateSalt(rnd) IN
    IF s.err # NoErr
    THEN [order |-> NilOrder, err |-> ErrGenSalt, cause |-> s.err,
          steps |-> <<"address", "amounts", "salt">>]
    ELSE
    LET order == [Salt          |-> s.salt,
                  Maker         |-> maker,
                  Signer        |-> address,
                  Taker         |-> orderTaker(userOrder),
                  TokenID       |-> userOrder.TokenID,
                  MakerAmount   |-> amounts.makerAmount,
                  TakerAmount   |-> amounts.takerAmount,
                  Expiration    |-> orderExpiration(userOrder),
                  Nonce         |-> orderNonce(userOrder),
                  FeeRateBps    |-> orderFeeRateBps(userOrder),
                  Side          |-> userOrder.Side,
                  SignatureType |-> b.SignatureType,
                  Signature     |-> NilPtr]
        sig   == BuildOrderSignature(b.ChainID, b.PrivateKey, order,
                                     b.SignatureType, recid)
    IN
    IF sig.err # NoErr
    THEN [order |-> order, err |-> ErrSignOrder, cause |-> sig.err,
          steps |-> <<"address", "amounts", "salt", "sign">>]
    ELSE [order |-> [order EXCEPT !.Signature = sig.signature],
          err |-> NoErr, cause |-> NoErr,
          steps |-> <<"address", "amounts", "salt", "sign">>]

\* The result carries the wrapping message (err), the wrapped error (cause)
\* and the steps that ran, in order.
BuildOrder(b, userOrder, options, rnd, recid) ==
    LET addr == GetAddressFromPrivateKey(b.PrivateKey) IN
    IF addr.err # NoErr
    THEN [order |-> NilOrder, err |-> ErrGetAddress, cause |-> addr.err,
          steps |-> <<"address">>]
    ELSE
    LET address     == addr.address
        maker       == makerAddress(b, address)
        roundConfig == getRoundConfig(options.TickSize)
        amounts     == calculateOrderAmounts(userOrder.Price, userOrder.Size,
                                             userOrder.Side, roundConfig)
    IN
    IF amounts.err # NoErr
    THEN [order |-> NilOrder, err |-> ErrCalcAmounts, cause |-> amounts.err,
          steps |-> <<"address", "amounts">>]
    ELSE
    LET s == generateSalt(rnd) IN
    IF s.err # NoErr
    THEN [order |-> NilOrder, err |-> ErrGenSalt, cause |-> s.err,
          steps |-> <<"address", "amounts", "salt">>]
    ELSE
    LET order == [Salt          |-> s.salt,
                  Maker         |-> maker,
                  Signer        |-> address,
                  Taker         |-> orderTaker(userOrder),
                  TokenID       |-> userOrder.TokenID,
                  MakerAmount   |-> amounts.makerAmount,
                  TakerAmount   |-> amounts.takerAmount,
                  Expiration    |-> orderExpiration(userOrder),
                  Nonce         |-> orderNonce(userOrder),
                  FeeRateBps    |-> orderFeeRateBps(userOrder),
                  Side          |-> userOrder.Side,
                  SignatureType |-> b.SignatureType,
                  Signature     |-> NilPtr]
        sig   == BuildOrderSignature(b.ChainID, b.PrivateKey, order,
                                     b.SignatureType, recid)
    IN
    IF sig.err # NoErr
    THEN [order |-> NilOrder, err |-> ErrSignOrder, cause |-> sig.err,
          steps |-> <<"address", "amounts", "salt", "sign">>]
    ELSE [order |-> [order EXCEPT !.Signature = sig.signature],
          err |-> NoErr, cause |-> NoErr,
          steps |-> <<"address", "amounts", "salt", "sign">>]

marketUserOrderDefaultsSwapped(userMarketOrder) ==
    LET price == IF userMarketOrder.Price # NilPtr THEN userMarketOrder.Price.val
                 ELSE IF userMarketOrder.Side = SideBuy THEN D(1, 2) ELSE D(1, 0)
        size  == IF userMarketOrder.Side = SideBuy
                 THEN DecDiv(userMarketOrder.Amount, price)
                 ELSE userMarketOrder.Amount
    IN  [TokenID    |-> userMarketOrder.TokenID,
         Price      |-> price,
         Size       |-> size,
         Side       |-> userMarketOrder.Side,
         FeeRateBps |-> userMarketOrder.FeeRateBps,
         Nonce      |-> userMarketOrder.Nonce,
         Expiration |-> NilPtr,
         Taker      |-> userMarketOrder.Taker]

\* the UserOrder that BuildMarketOrder hands to BuildOrder
marketUserOrder(userMarketOrder) ==
    LET price == IF userMarketOrder.Price # NilPtr THEN userMarketOrder.Price.val
                 ELSE IF userMarketOrder.Side = SideBuy THEN D(1, 0) ELSE D(1, 2)
        size  == IF userMarketOrder.Side = SideBuy
                 THEN DecDiv(userMarketOrder.Amount, price)
                 ELSE userMarketOrder.Amount
    IN  [TokenID    |-> userMarketOrder.TokenID,
         Price      |-> price,
         Size       |-> size,
         Side       |-> userMarketOrder.Side,
         FeeRateBps |-> userMarketOrder.FeeRateBps,
         Nonce      |-> userMarketOrder.Nonce,
         Expiration |-> NilPtr,
         Taker      |-> userMarketOrder.Taker]

BuildMarketOrder(b, userMarketOrder, options, rnd, recid) ==
    BuildOrder(b, marketUserOrder(userMarketOrder), options, rnd, recid)

----------------------------------------------------------------------------
(* client.go: ClobClient.CreateOrder                                       *)

CreateOrder(b, userOrder, options, rnd, recid) ==
    LET verr == ValidatePrice(userOrder.Price, options.TickSize) IN
    IF verr # NoErr
    THEN [order |-> NilOrder, err |-> verr, cause |-> verr, steps |-> <<"validate">>]
    ELSE BuildOrder(b, userOrder, options, rnd, recid)

----------------------------------------------------------------------------
(* Inputs                                                                  *)

TickSizes == KnownTickSizes \cup {"0.05", "abc"}

\* prices for ValidatePrice: out of range, on a tick, within and beyond the
\* tolerance of each tick size
ValidatePrices ==
    {D(0, 0), D(-5, 1), D(15, 1), D(1, 0), D(1000001, 6),
     D(5, 1), D(52, 2), D(523, 3), D(5234, 4), D(52345, 5),
     D(501, 3), D(5011, 4), D(599, 3), D(5989, 4),
     D(5201, 4), D(52011, 5), D(5299, 4), D(52989, 5),
     D(52301, 5), D(523011, 6), D(52399, 5), D(523989, 6),
     D(523401, 6), D(5234011, 7), D(523499, 6), D(5234989, 7),
     D(1, 2), D(1, 6), D(55, 2)}

AmountPrices == {D(0, 0), D(-5, 1), D(15, 1), D(1, 0), D(5, 1), D(52, 2), D(523, 3), D(1, 2)}

AmountSizes ==
    {D(0, 0), D(10, 0), D(-10, 0), D(12345, 4), D(-12345, 4), D(1055, 2),
     D(25, 2), D(-25, 2), D(15, 7), D(25, 7), D(26, 7)}

RoundConfigs ==
    {getRoundConfig(t) : t \in KnownTickSizes} \cup {RoundConfig(2, 1, 3), RoundConfig(7, 7, 7)}

RoundInputs ==
    {D(12345, 4), D(-12345, 4), D(5, 1), D(-5, 1), D(15, 1), D(25, 2), D(-25, 2),
     D(125, 3), D(-125, 3), D(1005, 3), D(12355, 4), D(99995, 5), D(-99995, 5),
     D(0, 0), D(10, 0), D(124999, 5), D(125001, 5), D(-124999, 5), D(5486, 3)}

Decimals == 0..4

BuilderKeys == PrivateKeys
BuilderChains == {ChainPolygon, ChainAmoy}
BuilderSignatureTypes == {SignatureTypeEOA, SignatureTypePOLYPROXY}
BuilderFunders == {NilPtr, Ptr("0xFunder")}

OrderPrices == {D(0, 0), D(52, 2), D(523, 3)}
OrderSizes == {D(10, 0), D(-10, 0), D(12345, 4)}
OrderTickSizes == {TickSize001, TickSize0001}
OrderNonces == {NilPtr, Ptr(7), Ptr(-1)}
OrderExpirations == {NilPtr, Ptr(1700000000)}
OrderFees == {NilPtr, Ptr(30)}
OrderTakers == {NilPtr, Ptr("0xTaker")}
TokenIDs == {"71321"}
RecoveryIds == {0, 1}

UserOrders ==
    [TokenID : TokenIDs, Price : OrderPrices, Size : OrderSizes, Side : Sides,
     FeeRateBps : OrderFees, Nonce : OrderNonces, Expiration : OrderExpirations,
     Taker : OrderTakers]

MarketPrices == {NilPtr, Ptr(D(52, 2)), Ptr(D(5, 1))}
MarketAmounts == {D(10, 0), D(13, 0)}

UserMarketOrders ==
    [TokenID : TokenIDs, Price : MarketPrices, Amount : MarketAmounts, Side : Sides,
     FeeRateBps : OrderFees, Nonce : OrderNonces, Taker : OrderTakers]

CreateOrderOptions == [TickSize : OrderTickSizes]

----------------------------------------------------------------------------
(* State machine: a caller holding one OrderBuilder makes one call at a    *)
(* time; last records the call and what it returned.                       *)

Idle == [op |-> "idle"]

\* no client, no request under way, no concurrent callers
NoClient == [nil |-> TRUE]
HttpIdle == [pc |-> "idle"]
NoCalls == <<>>

Init ==
    /\ builder \in {NewOrderBuilder(k, c, t, f) :
                       k \in BuilderKeys, c \in BuilderChains,
                       t \in BuilderSignatureTypes, f \in BuilderFunders}
    /\ last = Idle
    /\ client = NoClient
    /\ http = HttpIdle
    /\ calls = NoCalls

CallGetRoundConfig ==
    /\ last = Idle
    /\ \E tickSize \in TickSizes :
          last' = [op |-> "getRoundConfig", tickSize |-> tickSize,
                   ret |-> getRoundConfig(tickSize)]
    /\ UNCHANGED <<builder, client, http, calls>>

CallValidatePrice ==
    /\ last = Idle
    /\ \E price \in ValidatePrices, tickSize \in TickSizes :
          last' = [op |-> "ValidatePrice", price |-> price, tickSize |-> tickSize,
                   err |-> ValidatePrice(price, tickSize)]
    /\ UNCHANGED <<builder, client, http, calls>>

CallCalculateOrderAmounts ==
    /\ last = Idle
    /\ \E price \in AmountPrices, size \in AmountSizes, side \in Sides,
          roundConfig \in RoundConfigs :
          /\ price.e + size.e <= 8
          /\ last' = [op |-> "calculateOrderAmounts", price |-> price, size |-> size,
                      side |-> side, roundConfig |-> roundConfig,
                      ret |-> calculateOrderAmounts(price, size, side, roundConfig)]
    /\ UNCHANGED <<builder, client, http, calls>>

CallRoundAmount ==
    /\ last = Idle
    /\ \E amount \in RoundInputs, decimals \in Decimals :
          last' = [op |-> "roundAmount", amount |-> amount, decimals |-> decimals,
                   ret |-> roundAmount(amount, decimals)]
    /\ UNCHANGED <<builder, client, http, calls>>

CallGenerateSalt ==
    /\ last = Idle
    /\ \E rnd \in RandInt(MaxSalt) :
          last' = [op |-> "generateSalt", ret |-> generateSalt(rnd)]
    /\ UNCHANGED <<builder, client, http, calls>>

CallBuildOrder ==
    /\ last = Idle
    /\ \E userOrder \in UserOrders, options \in CreateOrderOptions,
          rnd \in RandInt(MaxSalt), recid \in RecoveryIds :
          last' = [op |-> "BuildOrder", userOrder |-> userOrder, options |-> options,
                   ret |-> BuildOrder(builder, userOrder, options, rnd, recid)]
    /\ UNCHANGED <<builder, client, http, calls>>

CallBuildMarketOrder ==
    /\ last = Idle
    /\ \E userMarketOrder \in UserMarketOrders, options \in CreateOrderOptions,
          rnd \in RandInt(MaxSalt), recid \in RecoveryIds :
          last' = [op |-> "BuildMarketOrder", userMarketOrder |-> userMarketOrder,
                   userOrder |-> marketUserOrder(userMarketOrder), options |-> options,
                   rnd |-> rnd, recid |-> recid,
                   ret |-> BuildMarketOrder(builder, userMarketOrder, options, rnd, recid)]
    /\ UNCHANGED <<builder, client, http, calls>>

CallCreateOrder ==
    /\ last = Idle
    /\ \E userOrder \in UserOrders, options \in CreateOrderOptions,
          rnd \in RandInt(MaxSalt), recid \in RecoveryIds :
          last' = [op |-> "CreateOrder", userOrder |-> userOrder, options |-> options,
                   ret |-> CreateOrder(builder, userOrder, options, rnd, recid)]
    /\ UNCHANGED <<builder, client, http, calls>>

\* the caller is done with the result and may call again
Return ==
    /\ last # Idle
    /\ last' = Idle
    /\ UNCHANGED <<builder, client, http, calls>>

Next ==
    \/ CallGetRoundConfig
    \/ CallValidatePrice
    \/ CallCalculateOrderAmounts
    \/ CallRoundAmount
    \/ CallGenerateSalt
    \/ CallBuildOrder
    \/ CallBuildMarketOrder
    \/ CallCreateOrder
    \/ Return

Spec == Init /\ [][Next]_vars

TypeOK == last.op \in {"idle", "getRoundConfig", "ValidatePrice", "calculateOrderAmounts", "roundAmount",
                       "generateSalt", "BuildOrder", "BuildMarketOrder", "CreateOrder"}

----------------------------------------------------------------------------
(* Signing: a caller invokes the signing functions of signing.go directly, *)
(* one call at a time.                                                     *)

NoBuilder == [nil |-> TRUE]

\* the two configured chains, and two chain ids the table does not list
ChainIDs == {ChainPolygon, ChainAmoy, 1, 0}

SignOrders ==
    {[Salt          |-> salt,
      Maker         |-> "0xAddrA",
      Signer        |-> "0xAddrA",
      Taker         |-> ZeroAddress,
      TokenID       |-> "71321",
      MakerAmount   |-> FormatInt(makerAmount),
      TakerAmount   |-> FormatInt(1000000),
      Expiration    |-> FormatInt(0),
      Nonce         |-> FormatInt(0),
      FeeRateBps    |-> FormatInt(0),
      Side          |-> side,
      SignatureType |-> SignatureTypeEOA,
      Signature     |-> NilPtr] :
        salt \in {1, 2}, makerAmount \in {520000, -5}, side \in Sides}

AuthTimestamps == {0, 1700000000}
AuthNonces == {"0", "1"}

\* Two secrets; timestamps, methods, paths and bodies chosen so that
\* different arguments can spell the same text: 12 "G" "/" "a" and
\* 1 "2G" "/a" "" both give 12G/a.
Secrets == {"secretA", "secretB"}
HmacTimestamps == {1, 12}
HmacMethods == {<<"G">>, <<"2", "G">>}
HmacPaths == {<<"/">>, <<"/", "a">>}
HmacBodies == {<< >>, <<"a">>}

InitSign ==
    /\ builder = NoBuilder
    /\ last = Idle
    /\ client = NoClient
    /\ http = HttpIdle
    /\ calls = NoCalls

CallGetExchangeAddress ==
    /\ last = Idle
    /\ \E chainID \in ChainIDs :
          last' = [op |-> "getExchangeAddress", chainID |-> chainID,
                   ret |-> getExchangeAddress(chainID)]
    /\ UNCHANGED <<builder, client, http, calls>>

CallBuildOrderSignature ==
    /\ last = Idle
    /\ \E chainID \in ChainIDs, privateKey \in PrivateKeys, order \in SignOrders,
          recid \in RecoveryIds :
          last' = [op |-> "BuildOrderSignature", chainID |-> chainID,
                   privateKey |-> privateKey, order |-> order, recid |-> recid,
                   ret |-> BuildOrderSignature(chainID, privateKey, order,
                                               order.SignatureType, recid)]
    /\ UNCHANGED <<builder, client, http, calls>>

CallBuildClobEip712Signature ==
    /\ last = Idle
    /\ \E chainID \in ChainIDs, privateKey \in PrivateKeys,
          timestamp \in AuthTimestamps, nonce \in AuthNonces, recid \in RecoveryIds :
          last' = [op |-> "BuildClobEip712Signature", chainID |-> chainID,
                   privateKey |-> privateKey, timestamp |-> timestamp,
                   nonce |-> nonce, recid |-> recid,
                   ret |-> BuildClobEip712Signature(chainID, privateKey, timestamp,
                                                    nonce, recid)]
    /\ UNCHANGED <<builder, client, http, calls>>

CallBuildPolyHmacSignature ==
    /\ last = Idle
    /\ \E secret \in Secrets, timestamp \in HmacTimestamps, method \in HmacMethods,
          requestPath \in HmacPaths, body \in HmacBodies :
          last' = [op |-> "BuildPolyHmacSignature", secret |-> secret,
                   timestamp |-> timestamp, method |-> method,
                   requestPath |-> requestPath, body |-> body,
                   ret |-> BuildPolyHmacSignature(secret, timestamp, method,
                                                  requestPath, body)]
    /\ UNCHANGED <<builder, client, http, calls>>

NextSign ==
    \/ CallGetExchangeAddress
    \/ CallBuildOrderSignature
    \/ CallBuildClobEip712Signature
    \/ CallBuildPolyHmacSignature
    \/ Return

SpecSign == InitSign /\ [][NextSign]_vars

----------------------------------------------------------------------------
(* HTTP client: Request and its retry loop. One request runs at a time;    *)
(* http holds the position of Request and its local variables, attempts    *)
(* counts the calls of doRequest, replies lists what the network answered  *)
(* to each of them and sleeps lists the waits, in seconds.                 *)

MaxRetriesDefault == 3

NewHTTPClient(timeout, retryEnabled) ==
    [timeout      |-> timeout,
     retryEnabled |-> retryEnabled,
     maxRetries   |-> MaxRetriesDefault]

ErrMarshalBody == "failed to marshal request body"
ErrCreateRequest == "failed to create request"
ErrRequestFailed == "request failed"
ErrReadResponse == "failed to read response"
ErrStatus300 == "request failed with status 300"
ErrStatus404 == "request failed with status 404"
ErrStatus500 == "request failed with status 500"
ErrAfterRetries == "request failed after retries"

\* json.Marshal: a channel (like a function or a cyclic value) has no JSON
\* encoding
jsonMarshal(body) ==
    IF body.kind = "chan" THEN [bytes |-> NilPtr, err |-> "json: unsupported type"]
    ELSE [bytes |-> Ptr(body.text), err |-> NoErr]

\* What the network and the server do with one request: the request cannot
\* be built, the round trip fails (refused, reset, timed out), the body
\* cannot be read, or a response with a status code and a body arrives.
Replies ==
    {[kind |-> "badrequest"], [kind |-> "neterr"], [kind |-> "readerr"]}
        \cup {[kind |-> "status", code |-> 200, body |-> b] : b \in {"{}", "<html>"}}
        \cup {[kind |-> "status", code |-> c, body |-> ""] : c \in {300, 404, 500}}

doRequest(reply) ==
    CASE reply.kind = "badrequest" -> [resp |-> NilPtr, err |-> ErrCreateRequest]
      [] reply.kind = "neterr"     -> [resp |-> NilPtr, err |-> ErrRequestFailed]
      [] reply.kind = "readerr"    -> [resp |-> NilPtr, err |-> ErrReadResponse]
      [] OTHER ->
            IF reply.code < 200 \/ reply.code >= 300
            THEN [resp |-> NilPtr,
                  err  |-> CASE reply.code = 300 -> ErrStatus300
                             [] reply.code = 404 -> ErrStatus404
                             [] OTHER            -> ErrStatus500]
            ELSE [resp |-> Ptr(reply.body), err |-> NoErr]

shouldRetry(c, err) == IF ~c.retryEnabled THEN FALSE ELSE TRUE

requestRetriesExtra(c) == IF c.retryEnabled THEN c.maxRetries + 1 ELSE 1

\* retries := 1; if c.retryEnabled { retries = c.maxRetries }
requestRetries(c) == IF c.retryEnabled THEN c.maxRetries ELSE 1

sleepSecondsFlat(i) == 1

\* time.Duration(i+1) * time.Second
sleepSeconds(i) == i + 1

sleepsAfterAlways(i, retries) == TRUE

\* if i < retries-1 { time.Sleep(...) }
sleepsAfter(i, retries) == i < retries - 1

HttpMethods == {"GET", "POST", "DELETE", "PUT"}
HttpBodies == {[kind |-> "nil"], [kind |-> "json", text |-> "{}"], [kind |-> "chan"]}
HttpTimeouts == {30}

InitHttp ==
    /\ builder = NoBuilder
    /\ last = Idle
    /\ client \in {[HTTPClient |-> NewHTTPClient(t, r)] :
                      t \in HttpTimeouts, r \in BOOLEAN}
    /\ http = HttpIdle
    /\ calls = NoCalls

HttpDone(h, resp, err, cause) ==
    [h EXCEPT !.pc = "done", !.ret = [resp |-> resp, err |-> err, cause |-> cause]]

\* Request up to the loop: marshal the body, fix the number of attempts
HttpRequest ==
    /\ http.pc = "idle"
    /\ \E method \in HttpMethods, body \in HttpBodies :
          LET c  == client.HTTPClient
              m  == IF body.kind # "nil" THEN jsonMarshal(body)
                    ELSE [bytes |-> NilPtr, err |-> NoErr]
              h0 == [pc |-> "loop", method |-> method, body |-> body,
                     requestBody |-> m.bytes, retries |-> requestRetries(c),
                     i |-> 0, lastErr |-> NoErr, attempts |-> 0, replies |-> << >>,
                     sleeps |-> << >>,
                     ret |-> [resp |-> NilPtr, err |-> NoErr, cause |-> NoErr]]
          IN  http' = IF m.err # NoErr
                      THEN HttpDone(h0, NilPtr, ErrMarshalBody, m.err)
                      ELSE h0
    /\ UNCHANGED <<builder, last, client, calls>>

\* one pass of the loop body up to the sleep
HttpAttempt ==
    /\ http.pc = "loop"
    /\ http.i < http.retries
    /\ \E reply \in Replies :
          LET c == client.HTTPClient
              r == doRequest(reply)
              h == [http EXCEPT !.attempts = @ + 1, !.replies = Append(@, reply)]
          IN  http' =
                IF r.err = NoErr THEN HttpDone(h, r.resp, NoErr, NoErr)
                ELSE LET h1 == [h EXCEPT !.lastErr = r.err] IN
                     IF ~shouldRetry(c, r.err) THEN HttpDone(h1, NilPtr, r.err, NoErr)
                     ELSE IF sleepsAfter(http.i, http.retries)
                          THEN [h1 EXCEPT !.pc = "sleep"]
                          ELSE [h1 EXCEPT !.i = @ + 1]
    /\ UNCHANGED <<builder, last, client, calls>>

\* time.Sleep returns; i++
HttpSleep ==
    /\ http.pc = "sleep"
    /\ http' = [http EXCEPT !.pc = "loop", !.i = @ + 1,
                            !.sleeps = Append(@, sleepSeconds(http.i))]
    /\ UNCHANGED <<builder, last, client, calls>>

\* the loop is left with every attempt failed
HttpExhausted ==
    /\ http.pc = "loop"
    /\ http.i >= http.retries
    /\ http' = HttpDone(http, NilPtr, ErrAfterRetries, http.lastErr)
    /\ UNCHANGED <<builder, last, client, calls>>

\* the caller takes the result
HttpReturn ==
    /\ http.pc = "done"
    /\ http' = HttpIdle
    /\ UNCHANGED <<builder, last, client, calls>>

NextHttp ==
    \/ HttpRequest
    \/ HttpAttempt
    \/ HttpSleep
    \/ HttpExhausted
    \/ HttpReturn

SpecHttp == InitHttp /\ [][NextHttp]_vars

----------------------------------------------------------------------------
(* headers.go, client.go: the client and its API key operations. A call is *)
(* one step; what the clock, the signing primitive and the HTTP exchange   *)
(* give it is drawn with the call.                                         *)

DefaultTimeoutSeconds == 30

NewClobClient(host, chainID, privateKey, creds, signatureType, funderAddress) ==
    [Host          |-> host,
     ChainID       |-> chainID,
     PrivateKey    |-> privateKey,
     Creds         |-> creds,
     SignatureType |-> signatureType,
     FunderAddress |-> funderAddress,
     OrderBuilder  |-> NewOrderBuilder(privateKey, chainID, signatureType,
                                       funderAddress),
     HTTPClient    |-> NewHTTPClient(DefaultTimeoutSeconds, TRUE),
     UseServerTime |-> FALSE]

EndpointCreateAPIKey == "/auth/api-key"
EndpointDeriveAPIKey == "/auth/derive-api-key"

ErrBuildSignature == "failed to build signature"
ErrL1Headers == "failed to create L1 headers"
ErrCreateAPIKey == "failed to create API key"
ErrDeriveAPIKey == "failed to derive API key"
ErrParseAPIKey == "failed to parse API key response"

\* timestamp is time.Now().Unix()
CreateL1Headers(chainID, privateKey, nonce, timestamp, recid) ==
    LET addr == GetAddressFromPrivateKey(privateKey) IN
    IF addr.err # NoErr
    THEN [headers |-> NilPtr, err |-> ErrGetAddress]
    ELSE
    LET sig == BuildClobEip712Signature(chainID, privateKey, timestamp, nonce, recid) IN
    IF sig.err # NoErr
    THEN [headers |-> NilPtr, err |-> ErrBuildSignature]
    ELSE [headers |-> [POLY_ADDRESS   |-> addr.address,
                       POLY_SIGNATURE |-> sig.signature,
                       POLY_TIMESTAMP |-> FormatInt(timestamp),
                       POLY_NONCE     |-> nonce],
          err |-> NoErr]

\* json.Unmarshal(resp, &result) into ApiKeyRaw: members the text does not
\* have stay empty, a text that is not JSON is an error
jsonUnmarshalApiKeyRaw(resp) ==
    IF resp.kind # "json"
    THEN [result |-> NilPtr, err |-> "invalid character"]
    ELSE [result |-> [ApiKey |-> resp.apiKey, Secret |-> resp.secret,
                      Passphrase |-> resp.passphrase],
          err |-> NoErr]

apiKeyCreds(result) ==
    Ptr([Key |-> result.ApiKey, Secret |-> result.Secret,
         Passphrase |-> result.Passphrase])

\* The common course of CreateAPIKey and DeriveAPIKey; env is the clock, the
\* recovery id and the outcome of the HTTP request. requests lists what was
\* sent.
apiKeyCall(c, method, endpoint, failure, nonce, env) ==
    LET h == CreateL1Headers(c.ChainID, c.PrivateKey, nonce, env.timestamp, env.recid) IN
    IF h.err # NoErr
    THEN [creds |-> NilPtr, err |-> ErrL1Headers, cause |-> h.err, requests |-> << >>]
    ELSE
    LET sent == <<[method |-> method, path |-> endpoint, headers |-> h.headers]>> IN
    IF env.result.err # NoErr
    THEN [creds |-> NilPtr, err |-> failure, cause |-> env.result.err,
          requests |-> sent]
    ELSE
    LET parsed == jsonUnmarshalApiKeyRaw(env.result.resp.val) IN
    IF parsed.err # NoErr
    THEN [creds |-> NilPtr, err |-> ErrParseAPIKey, cause |-> parsed.err,
          requests |-> sent]
    ELSE [creds |-> apiKeyCreds(parsed.result), err |-> NoErr, cause |-> NoErr,
          requests |-> sent]

CreateAPIKey(c, nonce, env) ==
    apiKeyCall(c, "POST", EndpointCreateAPIKey, ErrCreateAPIKey, nonce, env)

DeriveAPIKey(c, nonce, env) ==
    apiKeyCall(c, "GET", EndpointDeriveAPIKey, ErrDeriveAPIKey, nonce, env)

CreateOrDeriveAPIKeyEager(c, nonce, envDerive, envCreate) ==
    LET k == CreateAPIKey(c, nonce, envCreate)
        d == DeriveAPIKey(c, nonce, envDerive)
    IN  IF k.err = NoErr
        THEN [creds |-> k.creds, err |-> k.err, cause |-> k.cause,
              requests |-> k.requests, called |-> <<"CreateAPIKey">>]
        ELSE [creds |-> d.creds, err |-> d.err, cause |-> d.cause,
              requests |-> k.requests \o d.requests,
              called |-> <<"CreateAPIKey", "DeriveAPIKey">>]

\* called lists the operations CreateOrDeriveAPIKey invoked, in order
CreateOrDeriveAPIKey(c, nonce, envDerive, envCreate) ==
    LET d == DeriveAPIKey(c, nonce, envDerive) IN
    IF d.err = NoErr
    THEN [creds |-> d.creds, err |-> NoErr, cause |-> NoErr,
          requests |-> d.requests, called |-> <<"DeriveAPIKey">>]
    ELSE LET k == CreateAPIKey(c, nonce, envCreate) IN
         [creds |-> k.creds, err |-> k.err, cause |-> k.cause,
          requests |-> d.requests \o k.requests,
          called |-> <<"DeriveAPIKey", "CreateAPIKey">>]

----------------------------------------------------------------------------
(* headers.go, client.go: the operations that need API credentials. Texts  *)
(* that are signed or sent are sequences of pieces; a JSON body is one     *)
(* piece, the text of the marshalled value.                                *)

EndpointPostOrder == "/order"
EndpointCancelOrder == "/order"
EndpointCancelAll == "/cancel-all"
EndpointCancelMarketOrders == "/cancel-market-orders"
EndpointGetOpenOrders == "/data/orders"
EndpointGetTrades == "/data/trades"
EndpointGetBalanceAllowance == "/balance-allowance"

ErrL2Headers == "failed to create L2 headers"
ErrBuildHmac == "failed to build HMAC signature"
ErrCredsPosting == "API credentials required for posting orders"
ErrCredsCanceling == "API credentials required for canceling orders"
ErrCredsRequired == "API credentials required"
ErrCreateOrder == "failed to create order"

\* a Go value handed over as body interface{}; its JSON text is the text of
\* the value
goValue(v) == [kind |-> "json", text |-> ToString(v)]

NilBody == [kind |-> "nil"]

\* timestamp is time.Now().Unix(); hmacs lists the texts that were signed
CreateL2Headers(privateKey, creds, method, requestPath, body, timestamp) ==
    LET addr == GetAddressFromPrivateKey(privateKey) IN
    IF addr.err # NoErr
    THEN [headers |-> NilPtr, err |-> ErrGetAddress, hmacs |-> << >>]
    ELSE
    LET sig    == BuildPolyHmacSignature(creds.val.Secret, timestamp, method,
                                         requestPath, body)
        signed == <<[secret |-> creds.val.Secret, timestamp |-> timestamp,
                     method |-> method, requestPath |-> requestPath,
                     body |-> body]>>
    IN
    IF sig.err # NoErr
    THEN [headers |-> NilPtr, err |-> ErrBuildHmac, hmacs |-> signed]
    ELSE [headers |-> [POLY_ADDRESS    |-> addr.address,
                       POLY_SIGNATURE  |-> sig.signature,
                       POLY_TIMESTAMP  |-> FormatInt(timestamp),
                       POLY_API_KEY    |-> creds.val.Key,
                       POLY_PASSPHRASE |-> creds.val.Passphrase],
          err |-> NoErr, hmacs |-> signed]

\* json.Marshal of a struct whose fields are all omitempty pointers, read
\* back into a map: the fields that are set
jsonMap(params) ==
    IF params = NilPtr THEN << >>
    ELSE [k \in {f \in DOMAIN params.val : params.val[f] # NilPtr} |->
              params.val[k].val]

\* the orders in which a range over the map may visit its keys
MapOrders(m) ==
    {s \in [1..Cardinality(DOMAIN m) -> DOMAIN m] :
        \A i, j \in DOMAIN s : i # j => s[i] # s[j]}

RECURSIVE joinParts(_, _)
joinParts(m, keys) ==
    IF Len(keys) = 0 THEN << >>
    ELSE <<keys[1], "=">> \o m[keys[1]]
            \o (IF Len(keys) > 1 THEN <<"&">> ELSE << >>)
            \o joinParts(m, Tail(keys))

\* keys is the order in which the map is ranged over; a value is written
\* as it is, without escaping
buildQueryParams(params, keys) == joinParts(jsonMap(params), keys)

\* http.NewRequest parses the URL, which ends at the first '#'; the request
\* line carries the path and the query of the parsed URL. url is the host
\* followed by the pieces of the path and the query.
requestURI(url) ==
    LET marks == {i \in 1..Len(url) : url[i] = "#"}
        end   == IF marks = {} THEN Len(url)
                 ELSE (CHOOSE i \in marks : \A j \in marks : i <= j) - 1
    IN  SubSeq(url, 2, end)

\* the attempts of Request from attempt i on; replies[i + 1] is what the
\* network does with attempt i, sent lists the requests put on the wire
RECURSIVE requestLoop(_, _, _, _, _, _)
requestLoop(c, request, replies, i, lastErr, sent) ==
    IF i >= requestRetries(c)
    THEN [resp |-> NilPtr, err |-> ErrAfterRetries, cause |-> lastErr, sent |-> sent]
    ELSE LET reply == replies[i + 1]
             r     == doRequest(reply)
             wire  == IF reply.kind = "badrequest" THEN sent
                      ELSE Append(sent, request)
         IN  IF r.err = NoErr
             THEN [resp |-> r.resp, err |-> NoErr, cause |-> NoErr, sent |-> wire]
             ELSE IF ~shouldRetry(c, r.err)
             THEN [resp |-> NilPtr, err |-> r.err, cause |-> NoErr, sent |-> wire]
             ELSE requestLoop(c, request, replies, i + 1, r.err, wire)

\* HTTPClient.Request as one step: the body is marshalled once and every
\* attempt sends the same method, URL, headers and bytes
Request(c, method, url, headers, body, replies) ==
    LET m == IF body.kind # "nil" THEN jsonMarshal(body)
             ELSE [bytes |-> NilPtr, err |-> NoErr]
    IN  IF m.err # NoErr
        THEN [resp |-> NilPtr, err |-> ErrMarshalBody, cause |-> m.err, sent |-> << >>]
        ELSE requestLoop(c, [method |-> method, uri |-> requestURI(url),
                             headers |-> headers, body |-> m.bytes],
                         replies, 0, NoErr, << >>)

\* json.Unmarshal(resp, &result) where result is a struct ("object") or a
\* slice ("array")
jsonUnmarshal(resp, shape) ==
    IF (shape = "object" /\ resp = "{}") \/ (shape = "array" /\ resp = "[]")
    THEN [result |-> Ptr([json |-> resp]), err |-> NoErr]
    ELSE [result |-> NilPtr, err |-> "json: cannot unmarshal"]

\* The common course of the operations after the check of c.Creds: the path
\* with the query, the body text, the L2 headers, the request and, where
\* the operation returns a value (shape is not "none"), the parsing of the
\* response. errs holds the messages of the operation; env is the clock and
\* what the network does with each attempt.
l2Call(c, method, endpoint, query, body, shape, errs, env) ==
    LET requestPath == <<endpoint>> \o (IF query # << >> THEN <<"?">> \o query
                                        ELSE << >>)
        url         == <<c.Host>> \o requestPath
        m           == IF body.kind # "nil" THEN jsonMarshal(body)
                       ELSE [bytes |-> Ptr(""), err |-> NoErr]
    IN
    IF m.err # NoErr
    THEN [result |-> NilPtr, err |-> errs.marshal, cause |-> m.err,
          hmacs |-> << >>, sent |-> << >>]
    ELSE
    LET bodyStr == IF m.bytes.val = "" THEN << >> ELSE <<m.bytes.val>>
        h       == CreateL2Headers(c.PrivateKey, c.Creds, <<method>>, requestPath,
                                   bodyStr, env.timestamp)
    IN
    IF h.err # NoErr
    THEN [result |-> NilPtr, err |-> ErrL2Headers, cause |-> h.err,
          hmacs |-> h.hmacs, sent |-> << >>]
    ELSE
    LET r == Request(c.HTTPClient, method, url, h.headers, body, env.replies) IN
    IF r.err # NoErr
    THEN [result |-> NilPtr, err |-> errs.request, cause |-> r.err,
          hmacs |-> h.hmacs, sent |-> r.sent]
    ELSE IF shape = "none"
    THEN [result |-> NilPtr, err |-> NoErr, cause |-> NoErr,
          hmacs |-> h.hmacs, sent |-> r.sent]
    ELSE
    LET parsed == jsonUnmarshal(r.resp.val, shape) IN
    IF parsed.err # NoErr
    THEN [result |-> NilPtr, err |-> errs.parse, cause |-> parsed.err,
          hmacs |-> h.hmacs, sent |-> r.sent]
    ELSE [result |-> parsed.result, err |-> NoErr, cause |-> NoErr,
          hmacs |-> h.hmacs, sent |-> r.sent]

\* if c.Creds == nil { return ..., fmt.Errorf(...) }
noCreds(errs) ==
    [result |-> NilPtr, err |-> errs.creds, cause |-> NoErr,
     hmacs |-> << >>, sent |-> << >>]

PostOrder(c, args, env) ==
    LET errs == [creds   |-> ErrCredsPosting,
                 marshal |-> "failed to marshal order",
                 request |-> "failed to post order",
                 parse   |-> "failed to parse order response"]
    IN  IF c.Creds = NilPtr THEN noCreds(errs)
        ELSE l2Call(c, "POST", EndpointPostOrder, << >>, goValue(args), "object",
                    errs, env)

\* created is what CreateOrder returned
CreateAndPostOrder(c, userOrder, options, orderType, rnd, recid, env) ==
    LET created == CreateOrder(c.OrderBuilder, userOrder, options, rnd, recid) IN
    IF created.err # NoErr
    THEN [result |-> NilPtr, err |-> ErrCreateOrder, cause |-> created.err,
          hmacs |-> << >>, sent |-> << >>, created |-> created]
    ELSE LET args == [Order |-> created.order, OrderType |-> orderType]
             p    == PostOrder(c, args, env)
         IN  [result |-> p.result, err |-> p.err, cause |-> p.cause,
              hmacs |-> p.hmacs, sent |-> p.sent, created |-> created]

CancelOrder(c, orderID, env) ==
    LET errs == [creds   |-> ErrCredsCanceling,
                 marshal |-> "failed to marshal body",
                 request |-> "failed to cancel order",
                 parse   |-> "failed to parse response"]
        body == [orderID |-> orderID]
    IN  IF c.Creds = NilPtr THEN noCreds(errs)
        ELSE l2Call(c, "DELETE", EndpointCancelOrder, << >>, goValue(body),
                    "object", errs, env)

CancelAllSendFirst(c, env) ==
    LET errs == [creds   |-> ErrCredsCanceling,
                 marshal |-> NoErr,
                 request |-> "failed to cancel all orders",
                 parse   |-> NoErr]
        bare == Request(c.HTTPClient, "DELETE", <<c.Host, EndpointCancelAll>>,
                        NilPtr, NilBody, env.replies)
    IN  IF c.Creds = NilPtr THEN [noCreds(errs) EXCEPT !.sent = bare.sent]
        ELSE l2Call(c, "DELETE", EndpointCancelAll, << >>, NilBody, "none",
                    errs, env)

CancelAll(c, env) ==
    LET errs == [creds   |-> ErrCredsCanceling,
                 marshal |-> NoErr,
                 request |-> "failed to cancel all orders",
                 parse   |-> NoErr]
    IN  IF c.Creds = NilPtr THEN noCreds(errs)
        ELSE l2Call(c, "DELETE", EndpointCancelAll, << >>, NilBody, "none",
                    errs, env)

CancelMarketOrders(c, params, env) ==
    LET errs == [creds   |-> ErrCredsCanceling,
                 marshal |-> "failed to marshal params",
                 request |-> "failed to cancel market orders",
                 parse   |-> NoErr]
    IN  IF c.Creds = NilPtr THEN noCreds(errs)
        ELSE l2Call(c, "DELETE", EndpointCancelMarketOrders, << >>,
                    goValue(params), "none", errs, env)

GetOpenOrders(c, params, keys, env) ==
    LET errs == [creds   |-> ErrCredsRequired,
                 marshal |-> NoErr,
                 request |-> "failed to get open orders",
                 parse   |-> "failed to parse orders"]
    IN  IF c.Creds = NilPtr THEN noCreds(errs)
        ELSE l2Call(c, "GET", EndpointGetOpenOrders,
                    buildQueryParams(params, keys), NilBody, "array", errs, env)

GetTrades(c, params, keys, env) ==
    LET errs == [creds   |-> ErrCredsRequired,
                 marshal |-> NoErr,
                 request |-> "failed to get trades",
                 parse   |-> "failed to parse trades"]
    IN  IF c.Creds = NilPtr THEN noCreds(errs)
        ELSE l2Call(c, "GET", EndpointGetTrades,
                    buildQueryParams(params, keys), NilBody, "array", errs, env)

GetBalanceAllowance(c, params, keys, env) ==
    LET errs == [creds   |-> ErrCredsRequired,
                 marshal |-> NoErr,
                 request |-> "failed to get balance allowance",
                 parse   |-> "failed to parse balance allowance"]
    IN  IF c.Creds = NilPtr THEN noCreds(errs)
        ELSE l2Call(c, "GET", EndpointGetBalanceAllowance,
                    buildQueryParams(params, keys), NilBody, "object", errs, env)

ClientHosts == {"https://clob.polymarket.com"}
ClientCreds == {NilPtr, Ptr([Key |-> "key0", Secret |-> "secret0", Passphrase |-> "pass0"])}

\* what the server may answer to an API key request
ApiKeyBodies ==
    {[kind |-> "json", apiKey |-> "keyD", secret |-> "secretD", passphrase |-> "passD"],
     [kind |-> "json", apiKey |-> "keyC", secret |-> "secretC", passphrase |-> "passC"],
     [kind |-> "json", apiKey |-> "", secret |-> "", passphrase |-> ""],
     [kind |-> "text"]}

\* outcomes of HTTPClient.Request with retry enabled and no body
RequestResults ==
    {[resp |-> Ptr(b), err |-> NoErr] : b \in ApiKeyBodies}
        \cup {[resp |-> NilPtr, err |-> ErrAfterRetries]}

ApiEnvs == [timestamp : {1700000000}, recid : RecoveryIds, result : RequestResults]

\* a float64 argument may be any value of the type, NaN and the infinities
\* included
ClientOrders ==
    {[TokenID |-> "71321", Price |-> price, Size |-> size, Side |-> side,
      FeeRateBps |-> NilPtr, Nonce |-> NilPtr, Expiration |-> NilPtr,
      Taker |-> NilPtr] :
        price \in {D(52, 2), NaN}, size \in {D(10, 0), PosInf}, side \in Sides}

InitClient ==
    /\ client \in {NewClobClient(h, ChainPolygon, k, cr, SignatureTypeEOA, NilPtr) :
                      h \in ClientHosts, k \in PrivateKeys, cr \in ClientCreds}
    /\ builder = client.OrderBuilder
    /\ last = Idle
    /\ http = HttpIdle
    /\ calls = NoCalls

CallCreateAPIKey ==
    /\ last = Idle
    /\ \E nonce \in AuthNonces, env \in ApiEnvs :
          last' = [op |-> "CreateAPIKey", nonce |-> nonce, env |-> env,
                   ret |-> CreateAPIKey(client, nonce, env)]
    /\ UNCHANGED <<builder, client, http, calls>>

CallDeriveAPIKey ==
    /\ last = Idle
    /\ \E nonce \in AuthNonces, env \in ApiEnvs :
          last' = [op |-> "DeriveAPIKey", nonce |-> nonce, env |-> env,
                   ret |-> DeriveAPIKey(client, nonce, env)]
    /\ UNCHANGED <<builder, client, http, calls>>

CallCreateOrDeriveAPIKey ==
    /\ last = Idle
    /\ \E nonce \in AuthNonces, envDerive \in ApiEnvs, envCreate \in ApiEnvs :
          last' = [op |-> "CreateOrDeriveAPIKey", nonce |-> nonce,
                   envDerive |-> envDerive, envCreate |-> envCreate,
                   ret |-> CreateOrDeriveAPIKey(client, nonce, envDerive, envCreate)]
    /\ UNCHANGED <<builder, client, http, calls>>

\* ClobClient.CreateOrder, which builds and signs with the builder's key
CallClientCreateOrder ==
    /\ last = Idle
    /\ \E userOrder \in ClientOrders, options \in CreateOrderOptions,
          rnd \in RandInt(MaxSalt), recid \in RecoveryIds :
          last' = [op |-> "CreateOrder", userOrder |-> userOrder, options |-> options,
                   rnd |-> rnd,
                   ret |-> CreateOrder(client.OrderBuilder, userOrder, options,
                                       rnd, recid)]
    /\ UNCHANGED <<builder, client, http, calls>>

\* what the network does with the attempts of one request, in order
ClientReplyRuns ==
    LET ok(b) == [kind |-> "status", code |-> 200, body |-> b]
        st(n) == [kind |-> "status", code |-> n, body |-> ""]
    IN  {<<ok("{}")>>, <<ok("[]")>>, <<ok("<html>")>>,
         <<st(500), ok("{}")>>, <<[kind |-> "neterr"], st(404), ok("[]")>>,
         <<st(404), st(500), [kind |-> "readerr"]>>,
         <<[kind |-> "badrequest"], [kind |-> "badrequest"], [kind |-> "badrequest"]>>}

L2Envs == [timestamp : {1700000000}, replies : ClientReplyRuns]

OrderTypes == {"GTC", "FOK"}

PostOrderArgsSet ==
    {[Order |-> CreateOrder(NewOrderBuilder(KeyA, ChainPolygon, SignatureTypeEOA,
                                            NilPtr),
                            [TokenID |-> "71321", Price |-> D(52, 2),
                             Size |-> D(10, 0), Side |-> side,
                             FeeRateBps |-> NilPtr, Nonce |-> NilPtr,
                             Expiration |-> NilPtr, Taker |-> NilPtr],
                            [TickSize |-> TickSize001], [n |-> 1, err |-> NoErr],
                            0).order,
      OrderType |-> t] : side \in Sides, t \in OrderTypes}

OrderIDs == {"0xorder1", ""}

\* a string may hold any character, '#' and '&' included
OpenOrderParamsSet ==
    {NilPtr} \cup
    {Ptr([id |-> i, market |-> m, asset_id |-> NilPtr]) :
        i \in {NilPtr, Ptr(<<"a", "1">>), Ptr(<<"a", "#", "b">>)},
        m \in {NilPtr, Ptr(<<"m">>)}}

TradeParamsSet ==
    {NilPtr} \cup
    {Ptr([id |-> i, maker_address |-> NilPtr, market |-> NilPtr,
          asset_id |-> NilPtr, before |-> b, after |-> NilPtr]) :
        i \in {NilPtr, Ptr(<<"t">>)}, b \in {NilPtr, Ptr(<<"1", "7">>)}}

\* asset_type has no omitempty and is always in the map
BalanceAllowanceParamsSet ==
    {NilPtr} \cup
    {Ptr([asset_type |-> Ptr(<<a>>), token_id |-> t]) :
        a \in {"COLLATERAL", "CONDITIONAL"}, t \in {NilPtr, Ptr(<<"7">>)}}

OrderMarketCancelParamsSet ==
    {NilPtr} \cup
    {Ptr([market |-> m, asset_id |-> NilPtr]) : m \in {NilPtr, Ptr(<<"m">>)}}

CallPostOrder ==
    /\ last = Idle
    /\ \E args \in PostOrderArgsSet, env \in L2Envs :
          last' = [op |-> "PostOrder", args |-> args, env |-> env,
                   ret |-> PostOrder(client, args, env)]
    /\ UNCHANGED <<builder, client, http, calls>>

CallCreateAndPostOrder ==
    /\ last = Idle
    /\ \E userOrder \in ClientOrders, options \in CreateOrderOptions,
          orderType \in OrderTypes, rnd \in RandInt(MaxSalt),
          recid \in RecoveryIds, env \in L2Envs :
          last' = [op |-> "CreateAndPostOrder", userOrder |-> userOrder,
                   options |-> options, orderType |-> orderType, rnd |-> rnd,
                   env |-> env,
                   ret |-> CreateAndPostOrder(client, userOrder, options,
                                              orderType, rnd, recid, env)]
    /\ UNCHANGED <<builder, client, http, calls>>

CallCancelOrder ==
    /\ last = Idle
    /\ \E orderID \in OrderIDs, env \in L2Envs :
          last' = [op |-> "CancelOrder", orderID |-> orderID, env |-> env,
                   ret |-> CancelOrder(client, orderID, env)]
    /\ UNCHANGED <<builder, client, http, calls>>

CallCancelAll ==
    /\ last = Idle
    /\ \E env \in L2Envs :
          last' = [op |-> "CancelAll", env |-> env,
                   ret |-> CancelAll(client, env)]
    /\ UNCHANGED <<builder, client, http, calls>>

CallCancelMarketOrders ==
    /\ last = Idle
    /\ \E params \in OrderMarketCancelParamsSet, env \in L2Envs :
          last' = [op |-> "CancelMarketOrders", params |-> params, env |-> env,
                   ret |-> CancelMarketOrders(client, params, env)]
    /\ UNCHANGED <<builder, client, http, calls>>

CallGetOpenOrders ==
    /\ last = Idle
    /\ \E params \in OpenOrderParamsSet, env \in L2Envs :
          \E keys \in MapOrders(jsonMap(params)) :
              last' = [op |-> "GetOpenOrders", params |-> params, keys |-> keys,
                       env |-> env,
                       ret |-> GetOpenOrders(client, params, keys, env)]
    /\ UNCHANGED <<builder, client, http, calls>>

CallGetTrades ==
    /\ last = Idle
    /\ \E params \in TradeParamsSet, env \in L2Envs :
          \E keys \in MapOrders(jsonMap(params)) :
              last' = [op |-> "GetTrades", params |-> params, keys |-> keys,
                       env |-> env,
                       ret |-> GetTrades(client, params, keys, env)]
    /\ UNCHANGED <<builder, client, http, calls>>

CallGetBalanceAllowance ==
    /\ last = Idle
    /\ \E params \in BalanceAllowanceParamsSet, env \in L2Envs :
          \E keys \in MapOrders(jsonMap(params)) :
              last' = [op |-> "GetBalanceAllowance", params |-> params,
                       keys |-> keys, env |-> env,
                       ret |-> GetBalanceAllowance(client, params, keys, env)]
    /\ UNCHANGED <<builder, client, http, calls>>

NextClient ==
    \/ CallCreateAPIKey
    \/ CallDeriveAPIKey
    \/ CallCreateOrDeriveAPIKey
    \/ CallClientCreateOrder
    \/ CallPostOrder
    \/ CallCreateAndPostOrder
    \/ CallCancelOrder
    \/ CallCancelAll
    \/ CallCancelMarketOrders
    \/ CallGetOpenOrders
    \/ CallGetTrades
    \/ CallGetBalanceAllowance
    \/ Return

SpecClient == InitClient /\ [][NextClient]_vars

----------------------------------------------------------------------------
(* Concurrent BuildOrder: several callers run BuildOrder on one            *)
(* OrderBuilder at the same time. calls[p] is the frame of caller p: its   *)
(* position, the objects its arguments point to and its local variables.   *)
(* The builder is shared and is read anew by every step that uses it.      *)

Callers == {"p", "q"}

ConcOrders ==
    {[TokenID |-> "71321", Price |-> price, Size |-> D(10, 0), Side |-> side,
      FeeRateBps |-> NilPtr, Nonce |-> NilPtr, Expiration |-> NilPtr,
      Taker |-> NilPtr] : price \in {D(52, 2), D(0, 0)}, side \in Sides}

ConcOptions == [TickSize : {TickSize001}]

\* a frame before the call: zero values
IdleFrame ==
    [pc |-> "idle", userOrder |-> NilPtr, options |-> NilPtr,
     address |-> "", maker |-> "", makerAmount |-> << >>, takerAmount |-> << >>,
     salt |-> 0, rnd |-> [n |-> 0, err |-> NoErr], recid |-> 0,
     ret |-> [order |-> NilOrder, err |-> NoErr, cause |-> NoErr, steps |-> << >>]]

FrameShared(p) == calls["p"]

\* the local variables of caller p's BuildOrder
Frame(p) == calls[p]

InitConc ==
    /\ builder \in {NewOrderBuilder(k, ChainPolygon, t, Ptr("0xFunder")) :
                       k \in BuilderKeys, t \in BuilderSignatureTypes}
    /\ last = Idle
    /\ client = NoClient
    /\ http = HttpIdle
    /\ calls = [p \in Callers |-> IdleFrame]

ConcFail(p, err, cause, steps) ==
    calls' = [calls EXCEPT ![p].pc = "done",
                           ![p].ret = [order |-> NilOrder, err |-> err,
                                       cause |-> cause, steps |-> steps]]

ConcCall(p) ==
    /\ calls[p].pc = "idle"
    /\ \E userOrder \in ConcOrders, options \in ConcOptions :
          calls' = [calls EXCEPT ![p] = [IdleFrame EXCEPT !.pc = "address",
                                                          !.userOrder = userOrder,
                                                          !.options = options]]
    /\ UNCHANGED <<builder, last, client, http>>

\* lines 40-49: the signer's address and the maker
ConcAddress(p) ==
    /\ calls[p].pc = "address"
    /\ LET addr == GetAddressFromPrivateKey(builder.PrivateKey) IN
       IF addr.err # NoErr
       THEN ConcFail(p, ErrGetAddress, addr.err, <<"address">>)
       ELSE calls' = [calls EXCEPT ![p].pc = "amounts",
                                   ![p].address = addr.address,
                                   ![p].maker = makerAddress(builder, addr.address)]
    /\ UNCHANGED <<builder, last, client, http>>

\* lines 52-63: the rounding configuration and the amounts
ConcAmounts(p) ==
    /\ calls[p].pc = "amounts"
    /\ LET userOrder == calls[p].userOrder
           amounts   == calculateOrderAmounts(userOrder.Price, userOrder.Size,
                                              userOrder.Side,
                                              getRoundConfig(calls[p].options.TickSize))
       IN  IF amounts.err # NoErr
           THEN ConcFail(p, ErrCalcAmounts, amounts.err, <<"address", "amounts">>)
           ELSE calls' = [calls EXCEPT ![p].pc = "salt",
                                       ![p].makerAmount = amounts.makerAmount,
                                       ![p].takerAmount = amounts.takerAmount]
    /\ UNCHANGED <<builder, last, client, http>>

\* lines 66-69: the salt
ConcSalt(p) ==
    /\ calls[p].pc = "salt"
    /\ \E rnd \in RandInt(MaxSalt) :
          LET s == generateSalt(rnd) IN
          IF s.err # NoErr
          THEN calls' = [calls EXCEPT
                  ![p].pc = "done", ![p].rnd = rnd,
                  ![p].ret = [order |-> NilOrder, err |-> ErrGenSalt, cause |-> s.err,
                              steps |-> <<"address", "amounts", "salt">>]]
          ELSE calls' = [calls EXCEPT ![p].pc = "sign", ![p].salt = s.salt,
                                      ![p].rnd = rnd]
    /\ UNCHANGED <<builder, last, client, http>>

\* lines 71-116: the defaults, the order and its signature
ConcSign(p) ==
    /\ calls[p].pc = "sign"
    /\ \E recid \in RecoveryIds :
          LET f         == Frame(p)
              userOrder == calls[p].userOrder
              order     == [Salt          |-> f.salt,
                            Maker         |-> f.maker,
                            Signer        |-> f.address,
                            Taker         |-> orderTaker(userOrder),
                            TokenID       |-> userOrder.TokenID,
                            MakerAmount   |-> f.makerAmount,
                            TakerAmount   |-> f.takerAmount,
                            Expiration    |-> orderExpiration(userOrder),
                            Nonce         |-> orderNonce(userOrder),
                            FeeRateBps    |-> orderFeeRateBps(userOrder),
                            Side          |-> userOrder.Side,
                            SignatureType |-> builder.SignatureType,
                            Signature     |-> NilPtr]
              sig       == BuildOrderSignature(builder.ChainID, builder.PrivateKey, order,
                                               builder.SignatureType, recid)
              steps     == <<"address", "amounts", "salt", "sign">>
          IN  calls' = [calls EXCEPT
                  ![p].pc = "done",
                  ![p].recid = recid,
                  ![p].ret = IF sig.err # NoErr
                                 THEN [order |-> NilOrder, err |-> ErrSignOrder,
                                       cause |-> sig.err, steps |-> steps]
                                 ELSE [order |-> [order EXCEPT !.Signature = sig.signature],
                                       err |-> NoErr, cause |-> NoErr, steps |-> steps]]
    /\ UNCHANGED <<builder, last, client, http>>

ConcReturn(p) ==
    /\ calls[p].pc = "done"
    /\ calls' = [calls EXCEPT ![p] = IdleFrame]
    /\ UNCHANGED <<builder, last, client, http>>

NextConc ==
    \E p \in Callers :
        \/ ConcCall(p)
        \/ ConcAddress(p)
        \/ ConcAmounts(p)
        \/ ConcSalt(p)
        \/ ConcSign(p)
        \/ ConcReturn(p)

SpecConc == InitConc /\ [][NextConc]_vars

----------------------------------------------------------------------------
(* Properties                                                              *)

BuilderOps == {"BuildOrder", "BuildMarketOrder"}
OrderOps == {"BuildOrder", "BuildMarketOrder", "CreateOrder"}

Returned(ops) == last.op \in ops /\ last.ret.err = NoErr

\* price <= 0 or price > 1, read off the decimal itself
OutOfRange(p) == p.m <= 0 \/ p.m > Pow10(p.e)

\* the value of a known tick size
TickValue(tickSize) ==
    CASE tickSize = TickSize01    -> D(1, 1)
      [] tickSize = TickSize001   -> D(1, 2)
      [] tickSize = TickSize0001  -> D(1, 3)
      [] tickSize = TickSize00001 -> D(1, 4)

\* price lies within tick/100 of k * tick for some integer k; only the two
\* multiples that enclose the price can be that close
TickAligned(price, tick) ==
    LET e == MaxE(price, tick)
        p == Scale(price, e)
        t == Scale(tick, e)
    IN  \E k \in {p \div t, (p \div t) + 1} : 100 * Abs(p - k * t) <= t

\* the integer k with k / 10^d nearest to x, a tie going to the larger magnitude
HalfAwayRound(x, d) ==
    LET e == IF x.e >= d THEN x.e ELSE d
        X == Scale(x, e)
        U == Pow10(e - d)
    IN  CHOOSE k \in {X \div U, (X \div U) + 1} :
            \/ 2 * Abs(k * U - X) < U
            \/ 2 * Abs(k * U - X) = U /\ Abs(k * U) > Abs(X)

\* text is the decimal text of an integer nearest to (k / 10^d) * 10^6
IsBaseUnits(text, k, d) ==
    /\ SetString(text).ok
    /\ text = FormatInt(SetString(text).val)
    /\ LET n == SetString(text).val
       IN  IF d <= 6 THEN n = k * Pow10(6 - d)
           ELSE 2 * Abs(n * Pow10(d - 6) - k) <= Pow10(d - 6)

\* C1: whenever generateSalt returns without error the salt lies in
\* [1, 2^63-1] (MaxSalt in the model), and so does the salt of every order
\* returned by BuildOrder.
C1_SaltInRange ==
    /\ (Returned({"generateSalt"}) => last.ret.salt \in 1..MaxSalt)
    /\ (Returned({"BuildOrder"}) => last.ret.order.Salt \in 1..MaxSalt)

\* C2: every signed order returned by BuildOrder or BuildMarketOrder was built
\* from a price in (0,1] that is a multiple of the tick size within tick/100.
C2_SignedPriceTickAligned ==
    Returned(BuilderOps) =>
        /\ ~OutOfRange(last.userOrder.Price)
        /\ TickAligned(last.userOrder.Price, TickValue(last.options.TickSize))

\* C3: a price <= 0 or > 1 is rejected with an error by ValidatePrice and by
\* calculateOrderAmounts, whatever the other arguments, and
\* calculateOrderAmounts then returns empty amounts.
C3_OutOfRangeRejected ==
    /\ (last.op = "ValidatePrice" /\ OutOfRange(last.price) => last.err # NoErr)
    /\ (last.op = "calculateOrderAmounts" /\ OutOfRange(last.price) =>
            /\ last.ret.err # NoErr
            /\ last.ret.makerAmount = EmptyString
            /\ last.ret.takerAmount = EmptyString)

C3_Witness ==
    /\ last.op = "calculateOrderAmounts"
    /\ last.price = D(15, 1)
    /\ last.ret.err = ErrPriceRange
    /\ last.ret.makerAmount = EmptyString

\* C4: for a price in (0,1] and one of the four tick sizes, ValidatePrice
\* succeeds exactly when the price is within tick/100 of a multiple of the tick.
C4_ValidatePriceIffAligned ==
    (last.op = "ValidatePrice" /\ ~OutOfRange(last.price)
        /\ last.tickSize \in KnownTickSizes) =>
        (last.err = NoErr <=> TickAligned(last.price, TickValue(last.tickSize)))

C4_Witness ==
    /\ last.op = "ValidatePrice"
    /\ last.price = D(52011, 5)
    /\ last.tickSize = TickSize001
    /\ last.err = ErrTickMultiple

\* C5: for a valid price, BUY has makerAmount = base units of
\* round(price*size, amountPrecision) and takerAmount = base units of
\* round(size, sizePrecision); SELL has the two legs exchanged; price 0.52,
\* size 10, precision 2 gives 5200000 / 10000000 for BUY.
C5_LegsAsSpecified ==
    (last.op = "calculateOrderAmounts" /\ ~OutOfRange(last.price)) =>
        LET notional == HalfAwayRound(DecMul(last.price, last.size), last.roundConfig.Amount)
            tokens   == HalfAwayRound(last.size, last.roundConfig.Size)
            usdcLeg  == IF last.side = SideBuy THEN last.ret.makerAmount
                                               ELSE last.ret.takerAmount
            tokenLeg == IF last.side = SideBuy THEN last.ret.takerAmount
                                               ELSE last.ret.makerAmount
        IN  /\ last.ret.err = NoErr
            /\ IsBaseUnits(usdcLeg, notional, last.roundConfig.Amount)
            /\ IsBaseUnits(tokenLeg, tokens, last.roundConfig.Size)
            /\ (last.price = D(52, 2) /\ last.size = D(10, 0)
                  /\ last.roundConfig = RoundConfig(2, 2, 2) =>
                    /\ usdcLeg = <<"5", "2", "0", "0", "0", "0", "0">>
                    /\ tokenLeg = <<"1", "0", "0", "0", "0", "0", "0", "0">>)

C5_Witness ==
    /\ last.op = "calculateOrderAmounts"
    /\ last.price = D(52, 2) /\ last.size = D(10, 0) /\ last.side = SideSell
    /\ last.roundConfig = RoundConfig(2, 2, 2)
    /\ last.ret.makerAmount = <<"1", "0", "0", "0", "0", "0", "0", "0">>
    /\ last.ret.takerAmount = <<"5", "2", "0", "0", "0", "0", "0">>

\* C6: makerAmount and takerAmount produced by calculateOrderAmounts and
\* carried by built orders are always texts of non-negative integers, for
\* every size including zero and negative sizes.
C6_AmountsNonNegative ==
    /\ (Returned({"calculateOrderAmounts"}) =>
            IsUint(last.ret.makerAmount) /\ IsUint(last.ret.takerAmount))
    /\ (Returned(OrderOps) =>
            IsUint(last.ret.order.MakerAmount) /\ IsUint(last.ret.order.TakerAmount))

\* C7: roundAmount is idempotent: rounding a rounded amount again to the same
\* precision leaves it unchanged.
C7_RoundAmountIdempotent ==
    last.op = "roundAmount" => roundAmount(last.ret, last.decimals) = last.ret

C7_Witness ==
    /\ last.op = "roundAmount"
    /\ last.amount = D(12345, 4) /\ last.decimals = 2
    /\ last.ret = D(123, 2)

\* C8: roundAmount(x, d) is x rounded to d decimal digits, a value half-way
\* between two d-digit values going to the one of larger magnitude.
C8_RoundHalfAwayFromZero ==
    last.op = "roundAmount" =>
        last.ret = Norm(D(HalfAwayRound(last.amount, last.decimals), last.decimals))

C8_Witness ==
    /\ last.op = "roundAmount"
    /\ last.amount = D(-125, 3) /\ last.decimals = 2
    /\ last.ret = D(-13, 2)

\* text is the canonical decimal text of n
IsDecimalOf(text, n) == SetString(text).ok /\ SetString(text).val = n /\ text = FormatInt(n)

\* C9: in a returned order taker is the zero address when unset and nonce,
\* expiration, feeRateBps are "0" when unset; a set field carries the decimal
\* text of the supplied value (or the supplied taker), and the remaining
\* fields do not depend on these four.
C9_FieldDefaults ==
    Returned({"BuildOrder"}) =>
        LET uo == last.userOrder
            o  == last.ret.order
            amounts == calculateOrderAmounts(uo.Price, uo.Size, uo.Side,
                                             getRoundConfig(last.options.TickSize))
        IN  /\ o.Taker = IF uo.Taker = NilPtr THEN ZeroAddress ELSE uo.Taker.val
            /\ IF uo.Nonce = NilPtr THEN o.Nonce = <<"0">>
               ELSE IsDecimalOf(o.Nonce, uo.Nonce.val)
            /\ IF uo.Expiration = NilPtr THEN o.Expiration = <<"0">>
               ELSE IsDecimalOf(o.Expiration, uo.Expiration.val)
            /\ IF uo.FeeRateBps = NilPtr THEN o.FeeRateBps = <<"0">>
               ELSE IsDecimalOf(o.FeeRateBps, uo.FeeRateBps.val)
            /\ o.TokenID = uo.TokenID
            /\ o.Side = uo.Side
            /\ o.MakerAmount = amounts.makerAmount
            /\ o.TakerAmount = amounts.takerAmount
            /\ o.SignatureType = builder.SignatureType
            /\ o.Signer = GetAddressFromPrivateKey(builder.PrivateKey).address
            /\ o.Maker \in {o.Signer} \cup {f.val : f \in {builder.FunderAddress} \ {NilPtr}}

C9_Witness ==
    /\ Returned({"BuildOrder"})
    /\ last.userOrder.Nonce = Ptr(7) /\ last.ret.order.Nonce = <<"7">>
    /\ last.userOrder.Taker = NilPtr /\ last.ret.order.Taker = ZeroAddress
    /\ last.userOrder.Expiration = NilPtr /\ last.ret.order.Expiration = <<"0">>
    /\ last.userOrder.FeeRateBps = Ptr(30) /\ last.ret.order.FeeRateBps = <<"3", "0">>

\* C10: in a returned order signer is the address derived from the builder's
\* private key; maker is the funder address when one is configured and the
\* signer otherwise.
C10_MakerAndSigner ==
    Returned({"BuildOrder"}) =>
        LET o == last.ret.order
        IN  /\ (builder.PrivateKey = KeyA => o.Signer = "0xAddrA")
            /\ (builder.PrivateKey = KeyB => o.Signer = "0xAddrB")
            /\ builder.PrivateKey \in {KeyA, KeyB}
            /\ (builder.FunderAddress # NilPtr => o.Maker = builder.FunderAddress.val)
            /\ (builder.FunderAddress = NilPtr => o.Maker = o.Signer)

C10_Witness ==
    /\ Returned({"BuildOrder"})
    /\ builder.PrivateKey = KeyB
    /\ builder.FunderAddress = Ptr("0xFunder")
    /\ last.ret.order.Maker = "0xFunder"
    /\ last.ret.order.Signer = "0xAddrB"

MainnetExchange == "0x4bFb41d5B3570DeFd03C39a9A4D8dE6Bd8B8982E"
AmoyExchange == "0xdFE02Eb6733538f8Ea35D585af8DE5958AD99E40"

\* C11: getExchangeAddress returns the Amoy exchange address for chain id
\* 80002 and for no other chain id, and the mainnet exchange address for
\* every other chain id; signing an order under an unknown chain id does not
\* fail on the lookup and puts the mainnet address into verifyingContract.
C11_ExchangeAddressFallback ==
    /\ last.op = "getExchangeAddress" =>
          /\ last.chainID = 80002 => last.ret = AmoyExchange
          /\ last.chainID # 80002 => last.ret = MainnetExchange
    /\ last.op = "BuildOrderSignature" =>
          /\ last.ret.err \in {NoErr, ErrInvalidKey, ErrHashMessage}
          /\ (last.privateKey # KeyMalformed /\ IsUint(last.order.MakerAmount))
                => last.ret.err = NoErr
          /\ last.ret.err = NoErr =>
                last.ret.signature.hash.domain.verifyingContract =
                    (IF last.chainID = 80002 THEN AmoyExchange ELSE MainnetExchange)

C11_Witness ==
    /\ last.op = "BuildOrderSignature"
    /\ last.chainID \notin {ChainPolygon, ChainAmoy}
    /\ last.ret.err = NoErr
    /\ last.ret.signature.hash.domain.verifyingContract = MainnetExchange

SignatureOps == {"BuildClobEip712Signature", "BuildOrderSignature"}

\* C12: every signature returned by BuildClobEip712Signature and by
\* BuildOrderSignature is 65 bytes long and its last byte is 27 or 28: a raw
\* recovery byte below 27 is increased by exactly 27, one of 27 or more is
\* left as it is.
C12_RecoveryByteNormalised ==
    (last.op \in SignatureOps /\ last.ret.err = NoErr) =>
        /\ last.ret.signature.size = 65
        /\ last.ret.signature.v \in {27, 28}
        /\ last.recid < 27 => last.ret.signature.v = last.recid + 27
        /\ last.recid >= 27 => last.ret.signature.v = last.recid

C12_Witness ==
    /\ last.op = "BuildClobEip712Signature"
    /\ last.ret.err = NoErr
    /\ last.recid = 1
    /\ last.ret.signature.v = 28

\* the arguments of every call the caller could have made
HmacCalls ==
    [secret : Secrets, timestamp : HmacTimestamps, method : HmacMethods,
     requestPath : HmacPaths, body : HmacBodies]

HmacText(c) == FormatInt(c.timestamp) \o c.method \o c.requestPath \o c.body

\* C13: BuildPolyHmacSignature signs exactly the decimal timestamp, the
\* method, the request path and the body, joined in this order with no
\* delimiter; the signature is determined by the secret and the joined text
\* alone: any call with the same secret and the same joined text gives the
\* same signature, whatever its arguments are.
C13_HmacOverConcatenation ==
    last.op = "BuildPolyHmacSignature" =>
        /\ last.ret.signature.data.message = HmacText(last)
        /\ last.ret.signature.data.secret = last.secret
        /\ \A c \in HmacCalls :
              (c.secret = last.secret /\ HmacText(c) = HmacText(last)) =>
                  BuildPolyHmacSignature(c.secret, c.timestamp, c.method,
                                         c.requestPath, c.body) = last.ret

C13_Witness ==
    /\ last.op = "BuildPolyHmacSignature"
    /\ last.timestamp = 12
    /\ last.ret.signature.data.message = <<"1", "2", "G", "/", "a">>
    /\ \E c \in HmacCalls : c.timestamp = 1 /\ c.secret = last.secret
                            /\ HmacText(c) = HmacText(last)

\* C14: BuildPolyHmacSignature never returns an error, and the signature it
\* returns never ends with the padding character '='.
C14_HmacNoErrorNoPadding ==
    last.op = "BuildPolyHmacSignature" =>
        /\ last.ret.err = NoErr
        /\ last.ret.signature.pad = 0

\* the untrimmed encoding of the digest does end with '='
C14_Witness ==
    /\ last.op = "BuildPolyHmacSignature"
    /\ last.ret.err = NoErr
    /\ base64URLEncode(last.ret.signature.data).pad > 0
    /\ last.ret.signature.pad = 0

\* C15: getRoundConfig maps tick sizes 0.1, 0.01, 0.001 and 0.0001 to
\* {1,1,1}, {2,2,2}, {3,3,3} and {4,4,4}, and every other tick size to
\* {2,2,2}; the result depends on the tick size alone.
C15_RoundConfigTable ==
    last.op = "getRoundConfig" =>
        /\ last.tickSize = "0.1"    => last.ret = [Price |-> 1, Size |-> 1, Amount |-> 1]
        /\ last.tickSize = "0.01"   => last.ret = [Price |-> 2, Size |-> 2, Amount |-> 2]
        /\ last.tickSize = "0.001"  => last.ret = [Price |-> 3, Size |-> 3, Amount |-> 3]
        /\ last.tickSize = "0.0001" => last.ret = [Price |-> 4, Size |-> 4, Amount |-> 4]
        /\ last.tickSize \notin {"0.1", "0.01", "0.001", "0.0001"}
              => last.ret = [Price |-> 2, Size |-> 2, Amount |-> 2]

C15_Witness ==
    /\ last.op = "getRoundConfig"
    /\ last.tickSize = "0.05"
    /\ last.ret = [Price |-> 2, Size |-> 2, Amount |-> 2]

HttpFinished == http.pc = "done"

\* C16 as stated: a finished Request has made at most 3 attempts when retry
\* is enabled and exactly one attempt when retry is disabled.
C16_ExactlyOneWithoutRetry ==
    HttpFinished =>
        /\ client.HTTPClient.retryEnabled => http.attempts <= 3
        /\ ~client.HTTPClient.retryEnabled => http.attempts = 1

\* C16 (amended): Request never makes more than 3 attempts when retry is
\* enabled nor more than one when it is disabled, and a finished Request
\* with retry disabled has made exactly one attempt unless the body could
\* not be marshalled, in which case it has made none.
C16_BoundedAttempts ==
    /\ http.pc # "idle" =>
          http.attempts <= (IF client.HTTPClient.retryEnabled THEN 3 ELSE 1)
    /\ (HttpFinished /\ ~client.HTTPClient.retryEnabled) =>
          http.attempts = (IF http.ret.err = ErrMarshalBody THEN 0 ELSE 1)
    /\ (HttpFinished /\ http.ret.err = ErrMarshalBody) => http.attempts = 0

C16_Witness ==
    /\ HttpFinished
    /\ client.HTTPClient.retryEnabled
    /\ http.attempts = 3
    /\ http.ret.err = ErrAfterRetries

\* C17: the waits between the attempts of one Request back off
\* exponentially: every wait is twice as long as the wait before it.
C17_WaitsDouble ==
    http.pc # "idle" =>
        \A k \in 2..Len(http.sleeps) : http.sleeps[k] = 2 * http.sleeps[k - 1]

C17_Witness ==
    /\ HttpFinished
    /\ http.attempts = 3
    /\ http.sleeps = <<1, 2>>

\* DeriveAPIKey succeeds: the key is usable, the request is answered and the
\* answer is JSON
DeriveSucceeds ==
    /\ client.PrivateKey # KeyMalformed
    /\ last.envDerive.result.err = NoErr
    /\ last.envDerive.result.resp.val.kind = "json"

IsCreateRequest(r) == r.method = "POST" /\ r.path = "/auth/api-key"
IsDeriveRequest(r) == r.method = "GET" /\ r.path = "/auth/derive-api-key"

\* C18: CreateOrDeriveAPIKey always tries DeriveAPIKey first; when derive
\* succeeds it returns the derived credentials and never calls CreateAPIKey;
\* CreateAPIKey is called only after derive has failed, and then what create
\* returns, credentials or error, is what is returned.
C18_DeriveBeforeCreate ==
    last.op = "CreateOrDeriveAPIKey" =>
        LET ret == last.ret
            d   == DeriveAPIKey(client, last.nonce, last.envDerive)
            k   == CreateAPIKey(client, last.nonce, last.envCreate)
        IN  /\ ret.called[1] = "DeriveAPIKey"
            /\ Len(ret.requests) > 0 => IsDeriveRequest(ret.requests[1])
            /\ DeriveSucceeds <=> d.err = NoErr
            /\ DeriveSucceeds =>
                  /\ ret.called = <<"DeriveAPIKey">>
                  /\ \A i \in 1..Len(ret.requests) : ~IsCreateRequest(ret.requests[i])
                  /\ ret.err = NoErr
                  /\ ret.creds = Ptr([Key        |-> last.envDerive.result.resp.val.apiKey,
                                      Secret     |-> last.envDerive.result.resp.val.secret,
                                      Passphrase |-> last.envDerive.result.resp.val.passphrase])
            /\ ~DeriveSucceeds =>
                  /\ ret.called = <<"DeriveAPIKey", "CreateAPIKey">>
                  /\ ret.creds = k.creds
                  /\ ret.err = k.err
                  /\ ret.cause = k.cause

\* derive is answered with an error, create with credentials
C18_Witness ==
    /\ last.op = "CreateOrDeriveAPIKey"
    /\ ~DeriveSucceeds
    /\ Len(last.ret.requests) = 2
    /\ IsDeriveRequest(last.ret.requests[1])
    /\ IsCreateRequest(last.ret.requests[2])
    /\ last.ret.err = NoErr
    /\ last.ret.creds.val.Key = "keyC"

\* C19: private key material exists only while a build or sign call runs:
\* between calls neither the ClobClient nor its OrderBuilder holds the key
\* in a field.
C19_KeyNotRetained ==
    last = Idle =>
        /\ client.PrivateKey \notin PrivateKeys
        /\ client.OrderBuilder.PrivateKey \notin PrivateKeys

\* what caller p's call returns when it runs alone, with the same draws
Alone(p) ==
    BuildOrder(builder, calls[p].userOrder, calls[p].options, calls[p].rnd,
               calls[p].recid)

\* C20: BuildOrder is free of side effects and its calls are independent:
\* no step of a call changes a field of the OrderBuilder or the UserOrder
\* and options of any call, and under every interleaving of concurrent calls
\* on one builder each call returns what it would return if it ran alone
\* with the same salt.
C20_CallsIndependent ==
    /\ [][ /\ builder' = builder
           /\ \A p \in Callers :
                 (calls[p].pc # "idle" /\ calls'[p].pc # "idle") =>
                     /\ calls'[p].userOrder = calls[p].userOrder
                     /\ calls'[p].options = calls[p].options
         ]_vars
    /\ [](\A p \in Callers : calls[p].pc = "done" => calls[p].ret = Alone(p))

\* two calls with different orders are both past the salt, with different
\* salts, and one of them has returned its signed order
C20_Witness ==
    /\ calls["p"].pc = "done"
    /\ calls["p"].ret.err = NoErr
    /\ calls["q"].pc = "sign"
    /\ calls["q"].userOrder # calls["p"].userOrder
    /\ calls["q"].salt # calls["p"].salt
    /\ calls["p"].ret = Alone("p")

\* the two decimal-to-integer conversions of calculateOrderAmounts, on the
\* amounts of the order: both texts are decimal integers
ConversionsSucceed(userOrder, options) ==
    LET roundConfig == getRoundConfig(options.TickSize)
        collateral  == roundAmount(DecMul(userOrder.Price, userOrder.Size),
                                   roundConfig.Amount)
        tokens      == roundAmount(userOrder.Size, roundConfig.Size)
    IN  /\ SetString(Sprintf0f(DecMul(collateral, Million))).ok
        /\ SetString(Sprintf0f(DecMul(tokens, Million))).ok

\* C21: no failure in the signing core is swallowed: a call that returns an
\* order without an error has had no failing step; in particular both
\* conversions of an amount to an integer string have succeeded.
C21_NoSwallowedFailure ==
    (last.op = "CreateOrder" /\ last.ret.err = NoErr) =>
        /\ client.PrivateKey # KeyMalformed
        /\ last.rnd.err = NoErr
        /\ ConversionsSucceed(last.userOrder, last.options)

AllSteps == <<"address", "amounts", "salt", "sign">>

\* the wrapping message of the error BuildOrder returns when step n fails
StepError(n) ==
    CASE n = 1 -> ErrGetAddress
      [] n = 2 -> ErrCalcAmounts
      [] n = 3 -> ErrGenSalt
      [] OTHER -> ErrSignOrder

\* C22: BuildOrder returns an error at once and does not retry: the steps it
\* ran are an initial part of address, amounts, salt, sign, each run once;
\* when it returns an error the order is nil and the error is that of the
\* last step it ran; when it returns no error all four steps ran and the
\* order carries a signature.
C22_FailFast ==
    last.op \in BuilderOps =>
        LET r == last.ret IN
        /\ \E n \in 1..4 : r.steps = SubSeq(AllSteps, 1, n)
        /\ r.err = NoErr =>
              /\ r.steps = AllSteps
              /\ r.order # NilOrder
              /\ r.order.Signature # NilPtr
        /\ r.err # NoErr =>
              /\ r.order = NilOrder
              /\ r.err = StepError(Len(r.steps))
              /\ r.cause # NoErr
        /\ builder.PrivateKey = KeyMalformed => r.steps = <<"address">>

\* the signature step itself fails, after the three steps before it
C22_Witness ==
    /\ last.op = "BuildOrder"
    /\ last.ret.err = ErrSignOrder
    /\ last.ret.steps = AllSteps
    /\ last.ret.order = NilOrder

\* the typed-data message of an order, member by member
OrderMessage(order) ==
    [salt          |-> FormatInt(order.Salt),
     maker         |-> order.Maker,
     signer        |-> order.Signer,
     taker         |-> order.Taker,
     tokenId       |-> order.TokenID,
     makerAmount   |-> order.MakerAmount,
     takerAmount   |-> order.TakerAmount,
     expiration    |-> order.Expiration,
     nonce         |-> order.Nonce,
     feeRateBps    |-> order.FeeRateBps,
     side          |-> FormatInt(IF order.Side = "BUY" THEN 0 ELSE 1),
     signatureType |-> FormatInt(order.SignatureType)]

\* C23: the signature of an order that BuildOrder returns covers exactly the
\* values the order carries: every member of the hashed message is the
\* value of the order's field, the signatureType that was hashed is the
\* order's SignatureType, and the domain is that of the builder's chain.
C23_SignatureCoversOrder ==
    Returned(BuilderOps) =>
        LET order == last.ret.order IN
        /\ order.Signature.hash.message = OrderMessage(order)
        /\ order.Signature.hash.message.signatureType = FormatInt(order.SignatureType)
        /\ order.SignatureType = builder.SignatureType
        /\ order.Signature.hash.domain.chainId = builder.ChainID

C23_Witness ==
    /\ Returned({"BuildOrder"})
    /\ last.ret.order.SignatureType = 1
    /\ last.ret.order.Signature.hash.message.signatureType = <<"1">>
    /\ last.ret.order.Salt > 0

\* crypto.Ecrecover followed by PubkeyToAddress: the signer of a signature
\* over hash, or an unrelated address when the signature is over another
\* hash
RecoverAddress(hash, signature) ==
    IF signature.hash = hash /\ signature.v \in {27, 28} THEN signature.signedBy
    ELSE "0xUnrelated"

AuthHash(chainID, address, timestamp, nonce) ==
    [domain  |-> [name |-> "ClobAuthDomain", version |-> "1", chainId |-> chainID],
     message |-> [address |-> address, timestamp |-> FormatInt(timestamp),
                  nonce |-> nonce, message |-> "Signing in to ClobAuth"]]

OrderHash(chainID, order) ==
    [domain  |-> [name |-> "Polymarket CTF Exchange", version |-> "1",
                  chainId |-> chainID,
                  verifyingContract |-> getExchangeAddress(chainID)],
     message |-> OrderMessage(order)]

\* C24: recovering the signer from a returned signature over the same
\* typed-data hash gives the address derived from the signing key: for an
\* auth challenge the address in the message and in POLY_ADDRESS, for an
\* order the order's signer.
C24_RecoverGivesSigner ==
    LET address == GetAddressFromPrivateKey(client.PrivateKey).address IN
    /\ last.op \in {"CreateAPIKey", "DeriveAPIKey"} =>
          \A i \in 1..Len(last.ret.requests) :
              LET h == last.ret.requests[i].headers IN
              /\ h.POLY_ADDRESS = address
              /\ RecoverAddress(AuthHash(client.ChainID, h.POLY_ADDRESS,
                                         last.env.timestamp, last.nonce),
                                h.POLY_SIGNATURE) = address
    /\ (last.op = "CreateOrder" /\ last.ret.err = NoErr) =>
          /\ last.ret.order.Signer = address
          /\ RecoverAddress(OrderHash(client.ChainID, last.ret.order),
                            last.ret.order.Signature) = address

C24_Witness ==
    /\ last.op = "CreateOrder"
    /\ last.ret.err = NoErr
    /\ client.PrivateKey = KeyB
    /\ RecoverAddress(OrderHash(client.ChainID, last.ret.order),
                      last.ret.order.Signature) = "0xAddrB"

\* a failure that may pass: the round trip or the read failed (timeout,
\* reset), or the server answered 5xx
IsTransient(reply) ==
    \/ reply.kind \in {"neterr", "readerr"}
    \/ reply.kind = "status" /\ reply.code >= 500

\* C25: Request retries only after a transient failure: every attempt that
\* was followed by another one failed with a timeout or network error or a
\* 5xx status, never with a 4xx (or 3xx) status or a request that could not
\* be built.
C25_RetryOnlyTransient ==
    http.pc # "idle" =>
        \A k \in 1..(Len(http.replies) - 1) : IsTransient(http.replies[k])

IsSuccess(reply) == reply.kind = "status" /\ reply.code >= 200 /\ reply.code < 300

\* C26: Request returns as soon as an attempt succeeds, with the response of
\* that attempt and without a further attempt; when every attempt fails it
\* returns an error that carries the error of the last attempt; and it does
\* not wait after the final attempt: a finished Request that made n >= 1
\* attempts has waited n - 1 times.
C26_ReturnOnFirstSuccess ==
    /\ http.pc # "idle" =>
          \A k \in 1..(Len(http.replies) - 1) : ~IsSuccess(http.replies[k])
    /\ (http.pc \in {"loop", "sleep"} /\ Len(http.replies) > 0) =>
          ~IsSuccess(http.replies[Len(http.replies)])
    /\ (HttpFinished /\ http.attempts > 0) =>
          LET n        == Len(http.replies)
              lastCall == doRequest(http.replies[n])
          IN  /\ n = http.attempts
              /\ Len(http.sleeps) = n - 1
              /\ IsSuccess(http.replies[n]) <=> http.ret.err = NoErr
              /\ http.ret.err = NoErr => http.ret.resp = Ptr(http.replies[n].body)
              /\ http.ret.err # NoErr =>
                    /\ http.ret.resp = NilPtr
                    /\ lastCall.err \in {http.ret.err, http.ret.cause}

\* the second attempt succeeds after one wait
C26_Witness ==
    /\ HttpFinished
    /\ http.attempts = 2
    /\ http.ret.err = NoErr
    /\ http.ret.resp = Ptr("<html>")
    /\ http.sleeps = <<1>>

AuthenticatedOps ==
    {"PostOrder", "CancelOrder", "CancelAll", "CancelMarketOrders",
     "GetOpenOrders", "GetTrades", "GetBalanceAllowance"}

CredsErrors == {ErrCredsPosting, ErrCredsCanceling, ErrCredsRequired}

\* C27: while the client has no API credentials, every operation that needs
\* them (PostOrder, CancelOrder, CancelAll, CancelMarketOrders,
\* GetOpenOrders, GetTrades, GetBalanceAllowance) returns the credentials
\* error and no value, having signed no text with HMAC and sent no request;
\* CreateAndPostOrder fails as well and sends nothing, whether or not it
\* created the order.
C27_NoCredsNoRequest ==
    client.Creds = NilPtr =>
        /\ last.op \in AuthenticatedOps =>
              /\ last.ret.err \in CredsErrors
              /\ last.ret.result = NilPtr
              /\ last.ret.hmacs = << >>
              /\ last.ret.sent = << >>
        /\ last.op = "CreateAndPostOrder" =>
              /\ last.ret.err \in {ErrCreateOrder, ErrCredsPosting}
              /\ last.ret.result = NilPtr
              /\ last.ret.hmacs = << >>
              /\ last.ret.sent = << >>

\* CreateAndPostOrder without credentials, after the order was built and
\* signed
C27_Witness ==
    /\ client.Creds = NilPtr
    /\ last.op = "CreateAndPostOrder"
    /\ last.ret.created.err = NoErr
    /\ last.ret.created.order.Signature # NilPtr
    /\ last.ret.err = ErrCredsPosting

\* the body a request put on the wire carries, as a text
sentBody(request) ==
    IF request.body = NilPtr THEN << >> ELSE <<request.body.val>>

\* C28: every request an authenticated operation puts on the wire, on the
\* first attempt and on every retry, carries what was signed with HMAC:
\* POLY_TIMESTAMP is the decimal text of the signed timestamp, the method is
\* the signed method, the path and query of the requested URL are the signed
\* request path, the body is the signed body (empty when there is none), and
\* POLY_SIGNATURE is the signature of exactly these.
C28_SignedIsSent ==
    (last.op \in AuthenticatedOps \cup {"CreateAndPostOrder"}
        /\ last.ret.sent # << >>) =>
        /\ Len(last.ret.hmacs) = 1
        /\ \A n \in DOMAIN last.ret.sent :
              LET request == last.ret.sent[n]
                  signed  == last.ret.hmacs[1]
              IN  /\ request.headers.POLY_TIMESTAMP = FormatInt(signed.timestamp)
                  /\ <<request.method>> = signed.method
                  /\ request.uri = signed.requestPath
                  /\ sentBody(request) = signed.body
                  /\ request.headers.POLY_SIGNATURE =
                        BuildPolyHmacSignature(client.Creds.val.Secret,
                                               signed.timestamp, signed.method,
                                               signed.requestPath,
                                               signed.body).signature

\* the integer a decimal amount text spells
AmountValue(text) == SetString(text).val

\* C29: for a price in (0, 1], a size that is not negative and a rounding
\* configuration that getRoundConfig returns, calculateOrderAmounts
\* succeeds and the USDC leg is never larger than the token leg:
\* makerAmount <= takerAmount for BUY, takerAmount <= makerAmount for SELL.
C29_UsdcLegNotLarger ==
    (/\ last.op = "calculateOrderAmounts"
     /\ ~OutOfRange(last.price)
     /\ last.size.m >= 0
     /\ last.roundConfig \in {getRoundConfig(t) : t \in TickSizes}) =>
        /\ last.ret.err = NoErr
        /\ last.side = SideBuy =>
              AmountValue(last.ret.makerAmount) <= AmountValue(last.ret.takerAmount)
        /\ last.side = SideSell =>
              AmountValue(last.ret.takerAmount) <= AmountValue(last.ret.makerAmount)

\* a BUY of 1.2345 tokens at price 1 with tick size 0.01: both legs round
\* to 1.23
C29_Witness ==
    /\ last.op = "calculateOrderAmounts"
    /\ last.price = D(1, 0)
    /\ last.size = D(12345, 4)
    /\ last.side = SideBuy
    /\ last.roundConfig = getRoundConfig(TickSize001)
    /\ last.ret.makerAmount = last.ret.takerAmount
    /\ AmountValue(last.ret.makerAmount) = 1230000

\* the limit order a market order stands for
LimitOrderOf(m) ==
    LET price == IF m.Price = NilPtr
                 THEN (IF m.Side = "BUY" THEN D(1, 0) ELSE D(1, 2))
                 ELSE m.Price.val
    IN  [TokenID    |-> m.TokenID,
         Price      |-> price,
         Size       |-> IF m.Side = "BUY" THEN DecDiv(m.Amount, price) ELSE m.Amount,
         Side       |-> m.Side,
         FeeRateBps |-> m.FeeRateBps,
         Nonce      |-> m.Nonce,
         Expiration |-> NilPtr,
         Taker      |-> m.Taker]

\* C30: BuildMarketOrder returns exactly what BuildOrder returns, with the
\* same options, for the limit order whose price is the supplied price or,
\* when none is supplied, 1.0 for BUY and 0.01 for SELL; whose size is
\* amount / price for BUY and the amount for SELL; whose token, side,
\* feeRateBps, nonce and taker are those of the market order; and whose
\* expiration is unset, so that the returned order carries and signs the
\* expiration "0".
C30_MarketOrderIsLimitOrder ==
    last.op = "BuildMarketOrder" =>
        /\ last.ret = BuildOrder(builder, LimitOrderOf(last.userMarketOrder),
                                 last.options, last.rnd, last.recid)
        /\ last.ret.err = NoErr =>
              /\ last.ret.order.Expiration = <<"0">>
              /\ last.ret.order.Signature.hash.message.expiration = <<"0">>
              /\ last.ret.order.Nonce = orderNonce(last.userMarketOrder)
              /\ last.ret.order.FeeRateBps = orderFeeRateBps(last.userMarketOrder)
              /\ last.ret.order.Taker = orderTaker(last.userMarketOrder)

\* a BUY market order of 13 USDC without a price: 13 tokens for 13 USDC
C30_Witness ==
    /\ last.op = "BuildMarketOrder"
    /\ last.userMarketOrder.Price = NilPtr
    /\ last.userMarketOrder.Side = SideBuy
    /\ last.userMarketOrder.Amount = D(13, 0)
    /\ last.userMarketOrder.Nonce = Ptr(7)
    /\ last.ret.err = NoErr
    /\ last.ret.order.MakerAmount = FormatInt(13000000)
    /\ last.ret.order.TakerAmount = FormatInt(13000000)
    /\ last.ret.order.Expiration = <<"0">>

====
